---- MODULE Spec2Model ----
(***************************************************************************)
(* Verification model of the arbitrage bot's Risk & Execution Engine       *)
(* (src/src/autobet.py) together with the collaborators it talks to (the   *)
(* two execution collaborators, the opportunity store and the clock), and  *)
(* of the cycle's processing of its opportunities (src/src/main.py) over   *)
(* the opportunity store (src/src/database.py).                            *)
(*                                                                         *)
(* Money, odds and percentages are Python floats in the source.  They are  *)
(* modelled as exact rationals [n |-> numerator, d |-> denominator > 0]    *)
(* in lowest terms, so IEEE rounding is abstracted away.                   *)
(***************************************************************************)
EXTENDS Integers, Sequences, FiniteSets, TLC

VARIABLES
    cfg,          \* AutobetConfig + BankrollConfig (fixed after construction)
    env,          \* os.environ: which API keys are present
    date,         \* date.today() of the wall clock
    today,        \* AutobetEngine._today
    bets_today,   \* AutobetEngine._bets_today
    loss_today,   \* AutobetEngine._loss_today (rational)
    pm_executor,  \* AutobetEngine.pm_executor
    cb_executor,  \* AutobetEngine.cb_executor
    pc,           \* position of the autobet_opportunity coroutine
    inv,          \* locals of the invocation in progress / just returned
    calls,        \* what the invocation did so far: collaborator calls, returns, logs
    rows,         \* ArbitrageDatabase: the arbitrage_events table, row id = position
    cpc,          \* position of the _process_opportunities coroutine
    todo,         \* the opportunities the loop of _process_opportunities has yet to take
    cur,          \* db_id of the opportunity being processed
    handed,       \* row ids passed to autobet_opportunity since the cycle began
    legs,         \* leg-placement calls issued since the cycle began
    alert,        \* the row and the outcome of the last alert of the cycle in progress
    dbcall,       \* the last call made on ArbitrageDatabase: arguments, store before, result
    running,      \* ArbitrageBot.running, the flag the shutdown signal clears
    lpc,          \* position of the run coroutine
    err,          \* the error logged last since the cycle began
    sig,          \* where run and _process_opportunities were when the signal cleared the flag
    pe,           \* ProbabilityEngine: min_value_edge and min_arbitrage_profit
    match,        \* the matched event detect_value_opportunities is given
    opps,         \* the opportunities detect_value_opportunities returned for it
    ppc,          \* position of detect_value_opportunities and of the sizing after it
    sized,        \* the stakes computed for the arbitrage of the matched event
    pair,         \* EventMatcher: the four team names _teams_match is given, and the threshold
    team_match,   \* the verdict _teams_match returned for them
    mpc,          \* position of _teams_match
    raw,          \* MarketNormalizer: the venue and the raw records it is given
    normalized,   \* the markets it returned for them
    npc,          \* position of the normalizer
    recipient_ids, \* TelegramNotifier.recipient_ids
    send,         \* locals of send_message, with what was delivered and what each attempt met
    tpc,          \* position of send_message
    unhedged,     \* row ids with a venue-B leg accepted and no mark_bet_placed since
    fetched       \* what the venues' fetches yielded in the cycle in progress, and the rows stored then

engineVars == <<cfg, env, date, today, bets_today, loss_today, pm_executor, cb_executor, pc, inv, calls>>
cycleVars == <<rows, cpc, todo, cur, handed, legs, alert>>
loopVars == <<running, lpc, err, sig>>
probVars == <<pe, match, opps, ppc, sized>>
matchVars == <<pair, team_match, mpc>>
normVars == <<raw, normalized, npc>>
notifyVars == <<recipient_ids, send, tpc>>
unitVars == <<matchVars, normVars, notifyVars>>
histVars == <<unhedged, fetched>>
auxVars == <<dbcall, loopVars, probVars, unitVars, histVars>>
vars == <<engineVars, cycleVars, auxVars>>

-----------------------------------------------------------------------------
(* Bounds of the model *)

MaxDay == 1          \* the clock runs over the dates 0..MaxDay
MaxBetsCounter == 3  \* invocations start only while _bets_today < MaxBetsCounter
MaxRaw == 3          \* the normalizer is given at most MaxRaw raw records
MaxLossCounter == 2  \* invocations start only while _loss_today > -MaxLossCounter

-----------------------------------------------------------------------------
(* Exact rational arithmetic standing in for Python floats *)

Abs(i) == IF i < 0 THEN -i ELSE i

RECURSIVE Gcd(_, _)
Gcd(a, b) == IF b = 0 THEN a ELSE Gcd(b, a % b)

Rat(num, den) ==
    LET s == IF den < 0 THEN -1 ELSE 1
        g == Gcd(Abs(num), Abs(den))
    IN  [n |-> (s * num) \div g, d |-> (s * den) \div g]

I2R(i) == [n |-> i, d |-> 1]
RatMul(x, y) == Rat(x.n * y.n, x.d * y.d)
\* common factors are cancelled before multiplying, to keep the products small
RatDiv(x, y) ==
    LET gn == Gcd(Abs(x.n), Abs(y.n))
        gd == Gcd(x.d, y.d)
    IN  IF gn = 0 THEN Rat(x.n * y.d, x.d * y.n)
        ELSE Rat((x.n \div gn) * (y.d \div gd), (x.d \div gd) * (y.n \div gn))
RatAdd(x, y) ==
    LET g == Gcd(x.d, y.d)
    IN  Rat(x.n * (y.d \div g) + y.n * (x.d \div g), (x.d \div g) * y.d)
RatNeg(x) == [n |-> -x.n, d |-> x.d]
RatLt(x, y) == x.n * y.d < y.n * x.d
RatLeq(x, y) == x.n * y.d <= y.n * x.d
Zero == I2R(0)

-----------------------------------------------------------------------------
(* Python values *)

None == "None"
Truthy(v) == v \notin {None, ""}

\* the db_id insert_opportunity returns for "no row" (row ids start at 1)
NoId == 0

\* no call made on the database yet
NoCall == [op |-> "none"]

\* no alert was attempted yet
NoAlert == [row |-> NoId, result |-> "none"]

\* no matched event was handed over yet
NoMatch == [pm_outcomes |-> << >>, cb_outcomes |-> << >>]

\* ProbabilityEngine() with its default thresholds: an edge of 0.05 and a
\* profit of 0.5 percent
DefaultThresholds == [min_value_edge |-> [n |-> 1, d |-> 20], min_arbitrage_profit |-> [n |-> 1, d |-> 2]]

\* no stakes were computed yet
NoSizing == [total_capital |-> 0]

\* no team names were compared yet
NoPair == [threshold |-> 0]

\* no raw records were handed to the normalizer yet
NoRaw == [venue |-> "none", records |-> << >>]

\* send_message was not called yet
NoSend == [recipient |-> 0]

\* no component outside the cycle has been called
MatchIdle ==
    /\ pair = NoPair
    /\ team_match = FALSE
    /\ mpc = "idle"
NormIdle ==
    /\ raw = NoRaw
    /\ normalized = << >>
    /\ npc = "idle"
NotifyIdle ==
    /\ recipient_ids = << >>
    /\ send = NoSend
    /\ tpc = "idle"
UnitsIdle ==
    /\ MatchIdle
    /\ NormIdle
    /\ NotifyIdle

\* no cycle has fetched yet
NoFetch == [polymarket |-> "none", cloudbet |-> "none", rows |-> 0]

\* no shutdown signal was handled yet
NoSignal == [lpc |-> "none", cpc |-> "none"]

\* str.lower(): the ASCII letters
UpperCase == <<"A", "B", "C", "D", "E", "F", "G", "H", "I", "J", "K", "L", "M", "N", "O", "P", "Q", "R", "S", "T", "U", "V", "W", "X", "Y", "Z">>
LowerCase == <<"a", "b", "c", "d", "e", "f", "g", "h", "i", "j", "k", "l", "m", "n", "o", "p", "q", "r", "s", "t", "u", "v", "w", "x", "y", "z">>
LowerChar(c) ==
    IF \E i \in 1..26 : UpperCase[i] = c
    THEN LowerCase[CHOOSE i \in 1..26 : UpperCase[i] = c]
    ELSE c
Lower(s) == [i \in 1..Len(s) |-> LowerChar(s[i])]

\* Python's `a in b` for strings (substring test; '' is in every string)
IsIn(a, b) ==
    \E i \in 0..(Len(b) - Len(a)) : \A j \in 1..Len(a) : b[i + j] = a[j]

\* dict.get(key) on a dict kept as a sequence of [k, v] items in insertion order
DictGet(dict, key) ==
    IF \E i \in 1..Len(dict) : dict[i].k = key
    THEN dict[CHOOSE i \in 1..Len(dict) : dict[i].k = key].v
    ELSE None


\* index of the first item of a sequence satisfying Match, 0 if there is none
\* (a `for ...: if ...: break` loop)
FirstIndex(seq, Match(_)) ==
    IF \E i \in 1..Len(seq) : Match(seq[i])
    THEN CHOOSE i \in 1..Len(seq) : Match(seq[i]) /\ \A j \in 1..(i - 1) : ~Match(seq[j])
    ELSE 0

-----------------------------------------------------------------------------
(* Configuration: AutobetConfig and BankrollConfig *)

BankrollAmount == 8                       \* bankroll.amount (gt 0)
MinProfitThresholds == {2}                \* min_profit_threshold (ge 0), percent
MaxBetsPerDayValues == {0, 2}             \* max_bets_per_day (ge 0)
MaxStakeFractions == {Rat(0, 1), Rat(1, 4)}  \* max_stake_fraction (0 <= f <= 1)
DailyLossLimits == {0, 1}                 \* daily_loss_limit (ge 0)

Configs ==
    [enabled : {TRUE},
     min_profit_threshold : MinProfitThresholds,
     max_bets_per_day : MaxBetsPerDayValues,
     max_stake_fraction : MaxStakeFractions,
     daily_loss_limit : DailyLossLimits,
     real_execution : BOOLEAN,
     bankroll : {BankrollAmount}]
    \cup
    \* a disabled engine reads nothing but the enable flag: AutobetConfig's defaults
    {[enabled |-> FALSE, min_profit_threshold |-> 1, max_bets_per_day |-> 20,
      max_stake_fraction |-> Rat(1, 4), daily_loss_limit |-> 0,
      real_execution |-> FALSE, bankroll |-> BankrollAmount]}

-----------------------------------------------------------------------------
(* Opportunities handed to the engine *)

\* detect_sports_arbitrage: the 'type' and 'profit_percentage' of a formatted
\* opportunity; a value edge reports abs(edge_percentage) as its "profit"
FormatType(raw_type) == IF raw_type = "arbitrage" THEN "arbitrage" ELSE "value_edge"
FormatProfit(raw_type, profit, edge) == IF raw_type = "arbitrage" THEN profit ELSE Abs(edge)

\* (type, profit_percentage) of the opportunities detection hands over:
\* arbitrage below, at and above the threshold; value edges whose abs(edge)
\* is above and below it
Kinds ==
    {[type |-> FormatType("arbitrage"), profit_percentage |-> FormatProfit("arbitrage", p, 0)] :
        p \in {1, 2, 3}}
    \cup
    {[type |-> FormatType("value_edge"), profit_percentage |-> FormatProfit("value_edge", 0, e)] :
        e \in {-3, 1}}

\* Stake Sizer (bet_sizing.py is not part of the sources): the two stakes of
\* an opportunity add up to its total capital
Sizings ==
    {[bet_amount_a |-> I2R(1), bet_amount_b |-> I2R(1), total_capital |-> I2R(2),
      guaranteed_profit |-> I2R(1)],
     [bet_amount_a |-> I2R(2), bet_amount_b |-> I2R(1), total_capital |-> I2R(3),
      guaranteed_profit |-> I2R(1)],
     [bet_amount_a |-> I2R(2), bet_amount_b |-> I2R(1), total_capital |-> I2R(3),
      guaranteed_profit |-> I2R(-1)]}

\* venue-A side: metadata.token_ids and the outcome name looked up in it
PolymarketSides ==
    {[outcome_a |-> <<"b">>,                                   \* exact key
      token_ids |-> <<[k |-> <<"a">>, v |-> "T1"], [k |-> <<"b">>, v |-> "T2"]>>],
     [outcome_a |-> <<"B", "c">>,                              \* fuzzy match only
      token_ids |-> <<[k |-> <<"a">>, v |-> "T1"], [k |-> <<"b">>, v |-> "T2"]>>],
     [outcome_a |-> <<"c">>,                                   \* no match
      token_ids |-> <<[k |-> <<"a">>, v |-> "T1"]>>]}

\* venue-B side: metadata.selection_ids, outcomes_full and the outcome name
CloudbetSides ==
    {[outcome_b |-> <<"a">>,                                   \* exact key
      selection_ids |-> <<[k |-> <<"a">>, v |-> "S1"]>>,
      outcomes_full |-> << >>],
     [outcome_b |-> <<"a", "B">>,                              \* key present, id None; found in outcomes_full
      selection_ids |-> <<[k |-> <<"a">>, v |-> None]>>,
      outcomes_full |-> <<[outcome |-> <<"c">>, name |-> << >>, selection_id |-> "S2"],
                          [outcome |-> << >>, name |-> <<"b">>, selection_id |-> "S3"]>>],
     [outcome_b |-> <<"c">>,                                   \* name matches, but no selection_id
      selection_ids |-> << >>,
      outcomes_full |-> <<[outcome |-> <<"c">>, name |-> << >>, selection_id |-> None]>>]}

OddsA == 3
OddsB == 2

MakeOpportunity(kind, z, a, b) ==
    [type |-> kind.type, profit_percentage |-> kind.profit_percentage,
     odds_a |-> OddsA, odds_b |-> OddsB,
     bet_amount_a |-> z.bet_amount_a, bet_amount_b |-> z.bet_amount_b,
     total_capital |-> z.total_capital, guaranteed_profit |-> z.guaranteed_profit,
     outcome_a |-> a.outcome_a, token_ids |-> a.token_ids,
     outcome_b |-> b.outcome_b, selection_ids |-> b.selection_ids,
     outcomes_full |-> b.outcomes_full]

\* the opportunities of the model: a base opportunity (an arbitrage exactly at
\* the threshold, over the cap, with both identifiers under their exact keys)
\* and every opportunity that differs from it in one respect
BaseKind == [type |-> "arbitrage", profit_percentage |-> 2]
BaseSizing == [bet_amount_a |-> I2R(2), bet_amount_b |-> I2R(1), total_capital |-> I2R(3),
               guaranteed_profit |-> I2R(1)]
BaseSideA == CHOOSE a \in PolymarketSides : a.outcome_a = <<"b">>
BaseSideB == CHOOSE b \in CloudbetSides : b.outcome_b = <<"a">>

Opportunities ==
    {MakeOpportunity(kind, BaseSizing, BaseSideA, BaseSideB) : kind \in Kinds}
    \cup {MakeOpportunity(BaseKind, z, BaseSideA, BaseSideB) : z \in Sizings}
    \cup {MakeOpportunity(BaseKind, BaseSizing, a, BaseSideB) : a \in PolymarketSides}
    \cup {MakeOpportunity(BaseKind, BaseSizing, BaseSideA, b) : b \in CloudbetSides}

RowIds == 1..2


-----------------------------------------------------------------------------
(* AutobetEngine: risk gate *)

\* the date taken over at a rollover, the counters kept
CountersAtGate_KeepsCounters ==
    IF cfg.enabled /\ date # today
    THEN [today |-> date, bets |-> bets_today, loss |-> loss_today]
    ELSE [today |-> today, bets |-> bets_today, loss |-> loss_today]

\* _reset_daily_counters_if_needed, as called from should_autobet (which
\* returns before reaching it when the engine is disabled)
CountersAtGate ==
    IF cfg.enabled /\ date # today
    THEN [today |-> date, bets |-> 0, loss |-> Zero]
    ELSE [today |-> today, bets |-> bets_today, loss |-> loss_today]

\* should_autobet with the bet cap compared by > instead of >=
ShouldAutobet_CapOffByOne(opp, c) ==
    /\ cfg.enabled
    /\ ~(opp.profit_percentage < cfg.min_profit_threshold)
    /\ ~(opp.type # "arbitrage")
    /\ ~(cfg.max_bets_per_day # 0 /\ c.bets > cfg.max_bets_per_day)
    /\ ~(cfg.daily_loss_limit > 0 /\ RatLeq(c.loss, I2R(-cfg.daily_loss_limit)))

\* should_autobet without the type filter
ShouldAutobet_NoTypeCheck(opp, c) ==
    /\ cfg.enabled
    /\ ~(opp.profit_percentage < cfg.min_profit_threshold)
    /\ ~(cfg.max_bets_per_day # 0 /\ c.bets >= cfg.max_bets_per_day)
    /\ ~(cfg.daily_loss_limit > 0 /\ RatLeq(c.loss, I2R(-cfg.daily_loss_limit)))

\* should_autobet rejecting a profit equal to the threshold
ShouldAutobet_StrictProfit(opp, c) ==
    /\ cfg.enabled
    /\ ~(opp.profit_percentage <= cfg.min_profit_threshold)
    /\ ~(opp.type # "arbitrage")
    /\ ~(cfg.max_bets_per_day # 0 /\ c.bets >= cfg.max_bets_per_day)
    /\ ~(cfg.daily_loss_limit > 0 /\ RatLeq(c.loss, I2R(-cfg.daily_loss_limit)))

\* should_autobet, evaluated on the counters c left by the daily reset
ShouldAutobet(opp, c) ==
    /\ cfg.enabled
    /\ ~(opp.profit_percentage < cfg.min_profit_threshold)
    /\ ~(opp.type # "arbitrage")
    /\ ~(cfg.max_bets_per_day # 0 /\ c.bets >= cfg.max_bets_per_day)
    /\ ~(cfg.daily_loss_limit > 0 /\ RatLeq(c.loss, I2R(-cfg.daily_loss_limit)))

\* max_stake = bankroll.amount * max_stake_fraction
MaxStake == RatMul(I2R(cfg.bankroll), cfg.max_stake_fraction)

\* the hard cap forgetting to scale the venue-B stake
ScaleStake_LegBUnscaled(opp) ==
    IF RatLt(Zero, MaxStake) /\ RatLt(MaxStake, opp.total_capital)
    THEN LET scale == RatDiv(MaxStake, opp.total_capital)
         IN  [opp EXCEPT !.bet_amount_a = RatMul(@, scale),
                         !.total_capital = MaxStake,
                         !.guaranteed_profit = RatMul(@, scale)]
    ELSE opp

\* the hard cap of autobet_opportunity: the opportunity dict after the scaling
ScaleStake(opp) ==
    IF RatLt(Zero, MaxStake) /\ RatLt(MaxStake, opp.total_capital)
    THEN LET scale == RatDiv(MaxStake, opp.total_capital)
         IN  [opp EXCEPT !.bet_amount_a = RatMul(@, scale),
                         !.bet_amount_b = RatMul(@, scale),
                         !.total_capital = MaxStake,
                         !.guaranteed_profit = RatMul(@, scale)]
    ELSE opp

-----------------------------------------------------------------------------
(* AutobetEngine._execute_real_bets: the part before the first leg call *)

Log(level, line) == [op |-> "log", args |-> <<level, line>>]

\* executors after the lazy initialisation from the environment
PmAfterInit == IF pm_executor = None /\ env.pm_key THEN "PolymarketExecutor" ELSE pm_executor
CbAfterInit == IF cb_executor = None /\ env.cb_key THEN "CloudbetExecutor" ELSE cb_executor

InitLogs ==
    IF pm_executor = None \/ cb_executor = None
    THEN (IF env.pm_key THEN << >> ELSE <<Log("error", 167)>>)
         \o (IF env.cb_key THEN << >> ELSE <<Log("error", 174)>>)
    ELSE << >>

NameMatch(x, y) == IsIn(Lower(x), Lower(y)) \/ IsIn(Lower(y), Lower(x))

\* token_id_a: exact key, then the first fuzzily matching key
ResolveTokenId(opp) ==
    LET exact == DictGet(opp.token_ids, opp.outcome_a)
        Fuzzy(item) == NameMatch(item.k, opp.outcome_a)
        i == FirstIndex(opp.token_ids, Fuzzy)
    IN  IF ~Truthy(exact) /\ Len(opp.token_ids) > 0 /\ i # 0
        THEN opp.token_ids[i].v
        ELSE exact

\* selection_id_b: exact key, then the first fuzzily matching key, then the
\* first outcomes_full entry whose name matches
ResolveSelectionId(opp) ==
    LET exact == DictGet(opp.selection_ids, opp.outcome_b)
        Fuzzy(item) == NameMatch(item.k, opp.outcome_b)
        i == FirstIndex(opp.selection_ids, Fuzzy)
        s1 == IF ~Truthy(exact) /\ i # 0 THEN opp.selection_ids[i].v ELSE exact
        \* (o.get('outcome') or o.get('name') or ''): a missing name is << >>
        OName(o) == IF o.outcome # << >> THEN o.outcome
                    ELSE IF o.name # << >> THEN o.name
                    ELSE << >>
        Full(o) == IsIn(Lower(opp.outcome_b), Lower(OName(o)))
                   \/ IsIn(Lower(OName(o)), Lower(opp.outcome_b))
        j == FirstIndex(opp.outcomes_full, Full)
    IN  IF ~Truthy(s1) /\ j # 0 THEN opp.outcomes_full[j].selection_id ELSE s1

\* CloudbetExecutor.place_bet(event_id, market_url, odds, stake, currency="USDT"):
\* a call binds iff every parameter without a default gets an argument
PlaceBetRequired == <<"event_id", "market_url", "odds", "stake">>
PlaceBetBinds(npositional, keywords) ==
    \A i \in 1..Len(PlaceBetRequired) :
        i <= npositional \/ PlaceBetRequired[i] \in keywords

\* what awaiting a collaborator's leg call can produce: a response (ok), no
\* response (fail) or an exception (raise).  PolymarketExecutor.place_order
\* catches every exception itself.
LegOutcomes(executor) ==
    IF executor = "PolymarketExecutor" THEN {"ok", "fail"} ELSE {"ok", "fail", "raise"}

\* decimal odds to price: price_a = 1.0 / odds_a
PriceOf(odds) == Rat(1, odds)


-----------------------------------------------------------------------------
(* State after construction *)

Init ==
    /\ cfg \in Configs
    \* the keys and the executors are read only under real execution
    /\ env \in IF cfg.enabled /\ cfg.real_execution
               THEN [pm_key : BOOLEAN, cb_key : BOOLEAN]
               ELSE {[pm_key |-> FALSE, cb_key |-> FALSE]}
    /\ date = 0
    /\ today = 0
    /\ bets_today = 0
    /\ loss_today = Zero
    \* the executors start as None; a caller may have set them beforehand
    /\ pm_executor \in IF cfg.enabled /\ cfg.real_execution THEN {None, "injected"} ELSE {None}
    /\ cb_executor \in IF cfg.enabled /\ cfg.real_execution THEN {None, "injected"} ELSE {None}
    /\ pc = "idle"
    /\ inv = [active |-> FALSE]
    /\ calls = << >>
    \* an empty store, no cycle in progress
    /\ rows = << >>
    /\ cpc = "idle"
    /\ todo = << >>
    /\ cur = NoId
    /\ handed = << >>
    /\ legs = << >>
    /\ alert = NoAlert
    /\ dbcall = NoCall
    /\ running = FALSE
    /\ lpc = "init"
    /\ err = "none"
    /\ sig = NoSignal
    /\ pe = DefaultThresholds
    /\ match = NoMatch
    /\ opps = << >>
    /\ ppc = "idle"
    /\ sized = NoSizing
    /\ UnitsIdle
    /\ unhedged = {}
    /\ fetched = NoFetch

-----------------------------------------------------------------------------
(* autobet_opportunity(opportunity, db_id) *)

\* the engine is entered by one caller at a time; the counters are capped to
\* keep the model finite
CanStart ==
    /\ pc = "idle"
    /\ bets_today < MaxBetsCounter
    /\ RatLt(I2R(-MaxLossCounter), loss_today)

NewInv(opp, db_id, approved) ==
    [active |-> TRUE, orig |-> opp, opp |-> ScaleStake(opp), db_id |-> db_id,
     approved |-> approved, token_id_a |-> None, selection_id_b |-> None,
     started |-> "n/a", recorded |-> FALSE]

\* the bookkeeping calling mark_bet_placed twice
Recorded_Twice(i, c, log) ==
    /\ calls' = log \o <<[op |-> "mark_bet_placed",
                          args |-> <<i.db_id, i.opp.guaranteed_profit>>],
                         [op |-> "mark_bet_placed",
                          args |-> <<i.db_id, i.opp.guaranteed_profit>>]>>
    /\ bets_today' = c.bets + 1
    /\ loss_today' = IF RatLt(i.opp.guaranteed_profit, Zero)
                     THEN RatAdd(c.loss, i.opp.guaranteed_profit)
                     ELSE c.loss

\* lines 133-142: mark_bet_placed and the daily counters, for invocation i on
\* counters c, after the events in log
Recorded(i, c, log) ==
    /\ calls' = log \o <<[op |-> "mark_bet_placed",
                          args |-> <<i.db_id, i.opp.guaranteed_profit>>]>>
    /\ bets_today' = c.bets + 1
    /\ loss_today' = IF RatLt(i.opp.guaranteed_profit, Zero)
                     THEN RatAdd(c.loss, i.opp.guaranteed_profit)
                     ELSE c.loss

\* should_autobet returned False
Rejected(opp, db_id) ==
    /\ CanStart
    /\ ~ShouldAutobet(opp, CountersAtGate)
    /\ today' = CountersAtGate.today
    /\ bets_today' = CountersAtGate.bets
    /\ loss_today' = CountersAtGate.loss
    /\ inv' = [NewInv(opp, db_id, FALSE) EXCEPT !.opp = opp]
    /\ calls' = << >>
    /\ pc' = "returned"
    /\ UNCHANGED <<cfg, env, date, pm_executor, cb_executor, cycleVars, auxVars>>

\* approved with real_execution disabled: bookkeeping only
Simulated(opp, db_id) ==
    /\ CanStart
    /\ ShouldAutobet(opp, CountersAtGate)
    /\ ~cfg.real_execution
    /\ today' = CountersAtGate.today
    /\ inv' = [NewInv(opp, db_id, TRUE) EXCEPT !.recorded = TRUE]
    /\ Recorded(NewInv(opp, db_id, TRUE), CountersAtGate, << >>)
    /\ pc' = "returned"
    /\ unhedged' = unhedged \ {db_id}
    /\ UNCHANGED <<cfg, env, date, pm_executor, cb_executor, cycleVars,
                   dbcall, loopVars, probVars, unitVars, fetched>>


\* approved with real_execution enabled: _execute_real_bets is entered
ExecEntered(opp) ==
    /\ CanStart
    /\ ShouldAutobet(opp, CountersAtGate)
    /\ cfg.real_execution
    /\ today' = CountersAtGate.today
    /\ bets_today' = CountersAtGate.bets
    /\ loss_today' = CountersAtGate.loss
    /\ pm_executor' = PmAfterInit
    /\ cb_executor' = CbAfterInit
    /\ UNCHANGED <<cfg, env, date, cycleVars, auxVars>>

\* execution_started is False: line 128, then return
NotStarted(i, log) ==
    /\ inv' = [i EXCEPT !.started = FALSE]
    /\ calls' = log \o <<Log("error", 128)>>
    /\ pc' = "returned"

\* lines 176-178: an executor is still missing after the initialisation
ExecNoExecutors(opp, db_id) ==
    /\ ExecEntered(opp)
    /\ PmAfterInit = None \/ CbAfterInit = None
    /\ NotStarted(NewInv(opp, db_id, TRUE), InitLogs \o <<Log("error", 177)>>)

\* lines 239-244: an instrument identifier could not be resolved
ExecMissingId(opp, db_id) ==
    LET i == [NewInv(opp, db_id, TRUE) EXCEPT
                 !.token_id_a = ResolveTokenId(opp),
                 !.selection_id_b = ResolveSelectionId(opp)]
    IN  /\ ExecEntered(opp)
        /\ PmAfterInit # None /\ CbAfterInit # None
        /\ ~Truthy(i.token_id_a) \/ ~Truthy(i.selection_id_b)
        /\ NotStarted(i, InitLogs \o <<Log("error", IF ~Truthy(i.token_id_a) THEN 240 ELSE 243)>>)

\* the venue-B call of line 256, as the engine issues it
PlaceBetCall(i) ==
    [op |-> "place_bet", args |-> <<i.selection_id_b, i.opp.odds_b, i.opp.bet_amount_b>>]

\* whether the call of line 256 (three positional arguments and currency=)
\* reaches the executor's body
CallBinds(executor) == executor = "injected" \/ PlaceBetBinds(3, {"currency"})

\* line 256 on the source's own CloudbetExecutor: the call raises TypeError,
\* which the handler of lines 278-280 turns into False
ExecPlaceBetTypeError(opp, db_id) ==
    LET i == [NewInv(opp, db_id, TRUE) EXCEPT
                 !.token_id_a = ResolveTokenId(opp),
                 !.selection_id_b = ResolveSelectionId(opp)]
    IN  /\ ExecEntered(opp)
        /\ PmAfterInit # None /\ CbAfterInit # None
        /\ Truthy(i.token_id_a) /\ Truthy(i.selection_id_b)
        /\ ~CallBinds(CbAfterInit)
        /\ NotStarted(i, InitLogs \o <<PlaceBetCall(i),
                                        [op |-> "place_bet_ret", args |-> <<"raise">>],
                                        Log("error", 279)>>)

\* the venue-A order issued first, before any venue-B call
ExecPlaceBet_VenueAFirst(opp, db_id) ==
    LET i == [NewInv(opp, db_id, TRUE) EXCEPT
                 !.token_id_a = ResolveTokenId(opp),
                 !.selection_id_b = ResolveSelectionId(opp)]
    IN  /\ ExecEntered(opp)
        /\ PmAfterInit # None /\ CbAfterInit # None
        /\ Truthy(i.token_id_a) /\ Truthy(i.selection_id_b)
        /\ CallBinds(CbAfterInit)
        /\ inv' = i
        /\ calls' = InitLogs \o <<[op |-> "place_order",
                                   args |-> <<i.token_id_a, Rat(1, i.opp.odds_a), "BUY",
                                              i.opp.bet_amount_a>>]>>
        /\ pc' = "awaitA"

\* line 256: the venue-B leg call is issued and awaited
ExecPlaceBet(opp, db_id) ==
    LET i == [NewInv(opp, db_id, TRUE) EXCEPT
                 !.token_id_a = ResolveTokenId(opp),
                 !.selection_id_b = ResolveSelectionId(opp)]
    IN  /\ ExecEntered(opp)
        /\ PmAfterInit # None /\ CbAfterInit # None
        /\ Truthy(i.token_id_a) /\ Truthy(i.selection_id_b)
        /\ CallBinds(CbAfterInit)
        /\ inv' = i
        /\ calls' = InitLogs \o <<PlaceBetCall(i)>>
        /\ pc' = "awaitB"

Counters == [today |-> today, bets |-> bets_today, loss |-> loss_today]

\* the venue-A call of line 268
PlaceOrderCall(i) ==
    [op |-> "place_order",
     args |-> <<i.token_id_a, PriceOf(i.opp.odds_a), "BUY", i.opp.bet_amount_a>>]

\* a failed venue-B call that does not abort: the venue-A order is issued anyway
PlaceBetFailed_Proceeds(r) ==
    /\ pc = "awaitB"
    /\ r \in LegOutcomes(cb_executor) \ {"ok"}
    /\ calls' = calls \o <<[op |-> "place_bet_ret", args |-> <<r>>], PlaceOrderCall(inv)>>
    /\ pc' = "awaitA"
    /\ UNCHANGED <<cfg, env, date, today, bets_today, loss_today, pm_executor, cb_executor, inv, cycleVars, auxVars>>

\* lines 257-262: the venue-B call did not produce a response
PlaceBetFailed(r) ==
    /\ pc = "awaitB"
    /\ r \in LegOutcomes(cb_executor) \ {"ok"}
    /\ NotStarted(inv, calls \o <<[op |-> "place_bet_ret", args |-> <<r>>],
                                  Log("error", IF r = "fail" THEN 261 ELSE 279)>>)
    /\ UNCHANGED <<cfg, env, date, today, bets_today, loss_today, pm_executor, cb_executor, cycleVars, auxVars>>

\* lines 257-268: the venue-B call produced a response; the venue-A call is issued
PlaceBetSucceeded ==
    /\ pc = "awaitB"
    /\ "ok" \in LegOutcomes(cb_executor)
    /\ calls' = calls \o <<[op |-> "place_bet_ret", args |-> <<"ok">>], PlaceOrderCall(inv)>>
    /\ pc' = "awaitA"
    /\ unhedged' = unhedged \cup {inv.db_id}
    /\ UNCHANGED <<cfg, env, date, today, bets_today, loss_today, pm_executor, cb_executor, inv, cycleVars,
                   dbcall, loopVars, probVars, unitVars, fetched>>

\* lines 269-274, then 133-142: the venue-A call returned, with or without a
\* response; _execute_real_bets returns True either way
PlaceOrderReturned(r) ==
    /\ pc = "awaitA"
    /\ r \in LegOutcomes(pm_executor) \ {"raise"}
    /\ inv' = [inv EXCEPT !.started = TRUE, !.recorded = TRUE]
    /\ Recorded(inv, Counters,
                calls \o <<[op |-> "place_order_ret", args |-> <<r>>]>>
                      \o (IF r = "fail" THEN <<Log("critical", 273)>> ELSE << >>))
    /\ pc' = "returned"
    /\ unhedged' = unhedged \ {inv.db_id}
    /\ UNCHANGED <<cfg, env, date, today, pm_executor, cb_executor, cycleVars,
                   dbcall, loopVars, probVars, unitVars, fetched>>

\* an exception of the venue-A call treated like a returned failure
PlaceOrderRaised_Records ==
    /\ pc = "awaitA"
    /\ "raise" \in LegOutcomes(pm_executor)
    /\ inv' = [inv EXCEPT !.started = TRUE, !.recorded = TRUE]
    /\ Recorded(inv, Counters,
                calls \o <<[op |-> "place_order_ret", args |-> <<"raise">>],
                           Log("critical", 273)>>)
    /\ pc' = "returned"
    /\ UNCHANGED <<cfg, env, date, today, pm_executor, cb_executor, cycleVars, auxVars>>

\* lines 278-280: the venue-A call raised
PlaceOrderRaised ==
    /\ pc = "awaitA"
    /\ "raise" \in LegOutcomes(pm_executor)
    /\ NotStarted(inv, calls \o <<[op |-> "place_order_ret", args |-> <<"raise">>],
                                  Log("error", 279)>>)
    /\ UNCHANGED <<cfg, env, date, today, bets_today, loss_today, pm_executor, cb_executor, cycleVars, auxVars>>

\* the coroutine has returned to its caller
Return ==
    /\ pc = "returned"
    /\ pc' = "idle"
    /\ inv' = [active |-> FALSE]
    /\ calls' = << >>
    /\ UNCHANGED <<cfg, env, date, today, bets_today, loss_today, pm_executor, cb_executor, cycleVars, auxVars>>

\* the local date changes
Midnight ==
    /\ date < MaxDay
    /\ date' = date + 1
    /\ UNCHANGED <<cfg, env, today, bets_today, loss_today, pm_executor, cb_executor, pc, inv, calls, cycleVars, auxVars>>

Next ==
    \/ \E opp \in Opportunities, db_id \in RowIds : Rejected(opp, db_id)
    \/ \E opp \in Opportunities, db_id \in RowIds : Simulated(opp, db_id)
    \/ \E opp \in Opportunities, db_id \in RowIds : ExecNoExecutors(opp, db_id)
    \/ \E opp \in Opportunities, db_id \in RowIds : ExecMissingId(opp, db_id)
    \/ \E opp \in Opportunities, db_id \in RowIds : ExecPlaceBetTypeError(opp, db_id)
    \/ \E opp \in Opportunities, db_id \in RowIds : ExecPlaceBet(opp, db_id)
    \/ \E r \in {"fail", "raise"} : PlaceBetFailed(r)
    \/ PlaceBetSucceeded
    \/ \E r \in {"ok", "fail"} : PlaceOrderReturned(r)
    \/ PlaceOrderRaised
    \/ Return
    \/ Midnight

Spec == Init /\ [][Next]_vars


-----------------------------------------------------------------------------
(* ArbitrageDatabase (src/src/database.py): the arbitrage_events table *)

RatAbs(x) == [n |-> Abs(x.n), d |-> x.d]

\* f"{odds:.6f}": positive odds in millionths, rounded half to even
Micros(x) ==
    LET q == x.n \div x.d
        s == (x.n % x.d) * 1000000
        f == s \div x.d
        rem == s % x.d
        up == 2 * rem > x.d \/ (2 * rem = x.d /\ f % 2 = 1)
    IN  q * 1000000 + f + (IF up THEN 1 ELSE 0)

\* _generate_opportunity_hash: SHA-256 of the formatted text, kept as the
\* tuple of the formatted parts
GenerateOpportunityHash(market_name, platform_a, platform_b, odds_a, odds_b) ==
    <<market_name, platform_a, platform_b, Micros(odds_a), Micros(odds_b)>>

OpportunityHash(opp) ==
    GenerateOpportunityHash(opp.market_name, opp.platform_a, opp.platform_b,
                            opp.odds_a, opp.odds_b)

\* SELECT ... WHERE opportunity_hash = ?: the row id, 0 if there is none
\* (the column is UNIQUE)
RowWithHash(store, h) ==
    IF \E k \in 1..Len(store) : store[k].opportunity_hash = h
    THEN CHOOSE k \in 1..Len(store) : store[k].opportunity_hash = h
    ELSE 0

\* SELECT ... WHERE market_name = ? AND platform_a = ? AND platform_b = ?
\* ORDER BY timestamp DESC LIMIT 1: the row inserted last, 0 if there is none
LatestRowFor(store, opp) ==
    LET same == {k \in 1..Len(store) :
                    /\ store[k].market_name = opp.market_name
                    /\ store[k].platform_a = opp.platform_a
                    /\ store[k].platform_b = opp.platform_b}
    IN  IF same = {} THEN 0 ELSE CHOOSE k \in same : \A j \in same : j <= k

\* abs(odds - prev) / prev if prev > 0 else 1.0
OddsChange(odds, prev) ==
    IF RatLt(Zero, prev) THEN RatDiv(RatAbs(RatAdd(odds, RatNeg(prev))), prev) ELSE I2R(1)

\* is_duplicate asking for a change on both sides before it lets the odds through
IsDuplicate_BothSides(store, opp) ==
    LET k == RowWithHash(store, OpportunityHash(opp))
        j == LatestRowFor(store, opp)
    IN  IF k # 0 THEN store[k].bet_placed = 1
        ELSE IF j = 0 THEN FALSE
        ELSE ~(/\ RatLt(Rat(1, 20), OddsChange(opp.odds_a, store[j].odds_a))
               /\ RatLt(Rat(1, 20), OddsChange(opp.odds_b, store[j].odds_b)))

\* is_duplicate
IsDuplicate(store, opp) ==
    LET k == RowWithHash(store, OpportunityHash(opp))
        j == LatestRowFor(store, opp)
    IN  IF k # 0 THEN store[k].bet_placed = 1
        ELSE IF j = 0 THEN FALSE
        ELSE ~(\/ RatLt(Rat(1, 20), OddsChange(opp.odds_a, store[j].odds_a))
               \/ RatLt(Rat(1, 20), OddsChange(opp.odds_b, store[j].odds_b)))

\* the row insert_opportunity writes (the columns read back by the cycle)
NewRow(opp) ==
    [market_name |-> opp.market_name, platform_a |-> opp.platform_a,
     platform_b |-> opp.platform_b, odds_a |-> opp.odds_a, odds_b |-> opp.odds_b,
     opportunity_hash |-> OpportunityHash(opp), alert_sent |-> 0, bet_placed |-> 0]

\* insert_opportunity answering None for every stored identity
InsertOpportunity_NoRetry(store, opp) ==
    LET k == RowWithHash(store, OpportunityHash(opp))
    IN  IF k # 0 \/ IsDuplicate(store, opp)
        THEN [store |-> store, id |-> NoId]
        ELSE [store |-> Append(store, NewRow(opp)), id |-> Len(store) + 1]

\* insert_opportunity: the store it leaves and the id it returns
InsertOpportunity(store, opp) ==
    LET k == RowWithHash(store, OpportunityHash(opp))
    IN  IF k # 0
        THEN [store |-> store, id |-> IF store[k].bet_placed = 1 THEN NoId ELSE k]
        ELSE IF IsDuplicate(store, opp)
        THEN [store |-> store, id |-> NoId]
        ELSE [store |-> Append(store, NewRow(opp)), id |-> Len(store) + 1]

\* mark_alert_sent, mark_bet_placed
MarkAlertSent(store, id) == [store EXCEPT ![id].alert_sent = 1]
MarkBetPlaced(store, id) == [store EXCEPT ![id].bet_placed = 1]

-----------------------------------------------------------------------------
(* ArbitrageBot._process_opportunities (src/src/main.py) *)

MaxListLen == 2      \* a cycle processes at most MaxListLen opportunities

\* a sized opportunity as _run_cycle hands it over: the base opportunity of
\* the engine under a market name, the two venues and the venue-A odds
CycleOpportunity(market_name, odds_a, profit) ==
    [market_name |-> market_name, platform_a |-> "polymarket", platform_b |-> "cloudbet",
     odds_a |-> odds_a, odds_b |-> I2R(OddsB),
     type |-> BaseKind.type, profit_percentage |-> profit,
     bet_amount_a |-> BaseSizing.bet_amount_a, bet_amount_b |-> BaseSizing.bet_amount_b,
     total_capital |-> BaseSizing.total_capital,
     guaranteed_profit |-> BaseSizing.guaranteed_profit,
     outcome_a |-> BaseSideA.outcome_a, token_ids |-> BaseSideA.token_ids,
     outcome_b |-> BaseSideB.outcome_b, selection_ids |-> BaseSideB.selection_ids,
     outcomes_full |-> BaseSideB.outcomes_full]

\* venue-A odds of one market: 3, 3.00000025 (the same to six decimals),
\* 3.1 (within 5% of both) and 4 (more than 5% away from all three)
CycleOdds == {I2R(3), Rat(12000001, 4000000), Rat(31, 10), I2R(4)}

\* one market at the odds 3, 3.1 and 4 with a profit of 2%, and a second
\* market whose profit is under the 0.5% needed to go on after the insert
CycleOpportunities ==
    {CycleOpportunity("m1", o, 2) : o \in {I2R(3), Rat(31, 10), I2R(4)}}
    \cup {CycleOpportunity("m2", I2R(3), 0)}

OpportunityLists == UNION {[1..n -> CycleOpportunities] : n \in 1..MaxListLen}

\* the database file outlives the process: it starts empty or with a row of
\* an earlier run on which a bet was recorded
InitialStores ==
    {<< >>, <<[NewRow(CycleOpportunity("m1", I2R(4), 2)) EXCEPT !.bet_placed = 1]>>}

\* the configurations of the cycle model: the engine enabled, no daily
\* limits, with and without real execution (both executors set beforehand)
CycleConfigs ==
    {c \in Configs : /\ c.enabled
                     /\ c.max_bets_per_day = 0
                     /\ c.daily_loss_limit = 0
                     /\ c.max_stake_fraction = Rat(1, 4)}

CycleInit ==
    /\ cfg \in CycleConfigs
    /\ env = [pm_key |-> FALSE, cb_key |-> FALSE]
    /\ date = 0
    /\ today = 0
    /\ bets_today = 0
    /\ loss_today = Zero
    /\ pm_executor = IF cfg.real_execution THEN "injected" ELSE None
    /\ cb_executor = IF cfg.real_execution THEN "injected" ELSE None
    /\ pc = "idle"
    /\ inv = [active |-> FALSE]
    /\ calls = << >>
    /\ rows \in InitialStores
    /\ cpc = "idle"
    /\ todo = << >>
    /\ cur = NoId
    /\ handed = << >>
    /\ legs = << >>
    /\ alert = NoAlert
    /\ dbcall = NoCall
    /\ running = FALSE
    /\ lpc = "init"
    /\ err = "none"
    /\ sig = NoSignal
    /\ pe = DefaultThresholds
    /\ match = NoMatch
    /\ opps = << >>
    /\ ppc = "idle"
    /\ sized = NoSizing
    /\ UnitsIdle
    /\ unhedged = {}
    /\ fetched = NoFetch

\* a leg-placement call issued for a row
LegCall(op, id) == [op |-> op, row |-> id]

\* line 394 with the call awaited: the engine runs to completion on the
\* opportunity, issuing its leg calls and recording the bet
AutobetCall_Awaited(opp, id) ==
    /\ handed' = Append(handed, id)
    /\ \E rb \in LegOutcomes(CbAfterInit), ra \in LegOutcomes(PmAfterInit) :
          LET approved == ShouldAutobet(opp, CountersAtGate)
              placing == /\ approved
                         /\ cfg.real_execution
                         /\ PmAfterInit # None /\ CbAfterInit # None
                         /\ Truthy(ResolveTokenId(opp)) /\ Truthy(ResolveSelectionId(opp))
                         /\ CallBinds(CbAfterInit)
              recorded == approved /\ (cfg.real_execution => (placing /\ rb = "ok" /\ ra # "raise"))
          IN  /\ legs' = legs \o (IF placing THEN <<LegCall("place_bet", id)>> ELSE << >>)
                              \o (IF placing /\ rb = "ok"
                                  THEN <<LegCall("place_order", id)>> ELSE << >>)
              /\ rows' = IF recorded THEN MarkBetPlaced(rows, id) ELSE rows
    /\ UNCHANGED <<engineVars, auxVars, alert>>

\* line 394: autobet_opportunity(opportunity, db_id) is called without await.
\* The call builds the coroutine object and drops it; the body of
\* autobet_opportunity never runs, so the engine, the store and the
\* execution collaborators are left as they were.
AutobetCall(opp, id) ==
    /\ handed' = Append(handed, id)
    /\ UNCHANGED <<engineVars, auxVars, rows, legs, alert>>

AlertResults == {"sent", "failed", "timeout", "raise"}

\* profit_pct < 0.5, on a profit given in whole percent
BelowAlertThreshold(profit) == 2 * profit < 1

\* line 289: _process_opportunities is entered with the cycle's list
StartProcessing(list) ==
    /\ cpc = "idle"
    /\ cpc' = "loop"
    /\ todo' = list
    /\ cur' = NoId
    /\ handed' = << >>
    /\ legs' = << >>
    /\ alert' = NoAlert
    /\ UNCHANGED <<engineVars, auxVars, rows>>

\* lines 350-360: is_duplicate says duplicate, the opportunity is skipped
SkipDuplicate ==
    /\ cpc = "loop"
    /\ todo # << >>
    /\ IsDuplicate(rows, Head(todo))
    /\ todo' = Tail(todo)
    /\ UNCHANGED <<engineVars, auxVars, rows, cpc, cur, handed, legs, alert>>

\* lines 366-390: insert_opportunity; no id or a profit under 0.5% ends the
\* processing of this opportunity
StoreOpportunity ==
    /\ cpc = "loop"
    /\ todo # << >>
    /\ ~IsDuplicate(rows, Head(todo))
    /\ LET r == InsertOpportunity(rows, Head(todo))
       IN  /\ rows' = r.store
           /\ IF r.id = NoId \/ BelowAlertThreshold(Head(todo).profit_percentage)
              THEN /\ todo' = Tail(todo)
                   /\ UNCHANGED <<cpc, cur>>
              ELSE /\ cur' = r.id
                   /\ cpc' = "autobet"
                   /\ UNCHANGED todo
    /\ UNCHANGED <<engineVars, auxVars, handed, legs, alert>>

\* lines 392-399 and 416-417: the autobet call, then the quiet-hours test
Autobet(quiet) ==
    /\ cpc = "autobet"
    /\ AutobetCall(Head(todo), cur)
    /\ IF quiet
       THEN /\ cpc' = "loop"
            /\ todo' = Tail(todo)
            /\ cur' = NoId
       ELSE /\ cpc' = "alert"
            /\ UNCHANGED <<todo, cur>>

\* the alert block with mark_alert_sent outside the test of alert_sent
AlertReturned_Marks(r) ==
    /\ cpc = "alert"
    /\ rows' = MarkAlertSent(rows, cur)
    /\ alert' = [row |-> cur, result |-> r]
    /\ cpc' = "loop"
    /\ todo' = Tail(todo)
    /\ cur' = NoId
    /\ UNCHANGED <<engineVars, auxVars, handed, legs>>

\* lines 403-415: the awaited send_alert returned True ("sent"), returned
\* False ("failed"), ran into the timeout of wait_for, or the block raised
\* before the row was updated ("raise", caught at line 414)
AlertReturned(r) ==
    /\ cpc = "alert"
    /\ rows' = IF r = "sent" THEN MarkAlertSent(rows, cur) ELSE rows
    /\ alert' = [row |-> cur, result |-> r]
    /\ cpc' = "loop"
    /\ todo' = Tail(todo)
    /\ cur' = NoId
    /\ UNCHANGED <<engineVars, auxVars, handed, legs>>

\* line 422: the loop is over
FinishProcessing ==
    /\ cpc = "loop"
    /\ todo = << >>
    /\ cpc' = "idle"
    /\ alert' = NoAlert
    /\ UNCHANGED <<engineVars, auxVars, rows, todo, cur, handed, legs>>

CycleNext ==
    \/ \E list \in OpportunityLists : StartProcessing(list)
    \/ SkipDuplicate
    \/ StoreOpportunity
    \/ \E quiet \in BOOLEAN : Autobet(quiet)
    \/ \E r \in AlertResults : AlertReturned(r)
    \/ FinishProcessing

CycleSpec == CycleInit /\ [][CycleNext]_vars

-----------------------------------------------------------------------------
(* ArbitrageDatabase under any sequence of calls *)

MaxRows == 3         \* the table holds at most MaxRows rows

\* the arguments of is_duplicate and the identifying ones of insert_opportunity
StoreQuery(market_name, platform_b, odds_a, odds_b) ==
    [market_name |-> market_name, platform_a |-> "polymarket", platform_b |-> platform_b,
     odds_a |-> odds_a, odds_b |-> odds_b]

\* one market at every venue-A odds, the same market with other venue-B
\* odds, another market and another venue B
StoreQueries ==
    {StoreQuery("m1", "cloudbet", o, I2R(OddsB)) : o \in CycleOdds}
    \cup {StoreQuery("m1", "cloudbet", I2R(3), I2R(3)),
          StoreQuery("m2", "cloudbet", I2R(3), I2R(OddsB)),
          StoreQuery("m1", "other", I2R(3), I2R(OddsB))}

\* a fresh database file; the engine is not involved
StoreInit ==
    /\ cfg \in {c \in Configs : ~c.enabled}
    /\ env = [pm_key |-> FALSE, cb_key |-> FALSE]
    /\ date = 0
    /\ today = 0
    /\ bets_today = 0
    /\ loss_today = Zero
    /\ pm_executor = None
    /\ cb_executor = None
    /\ pc = "idle"
    /\ inv = [active |-> FALSE]
    /\ calls = << >>
    /\ rows = << >>
    /\ cpc = "idle"
    /\ todo = << >>
    /\ cur = NoId
    /\ handed = << >>
    /\ legs = << >>
    /\ alert = NoAlert
    /\ dbcall = NoCall
    /\ running = FALSE
    /\ lpc = "init"
    /\ err = "none"
    /\ sig = NoSignal
    /\ pe = DefaultThresholds
    /\ match = NoMatch
    /\ opps = << >>
    /\ ppc = "idle"
    /\ sized = NoSizing
    /\ UnitsIdle
    /\ unhedged = {}
    /\ fetched = NoFetch

\* is_duplicate(market_name, platform_a, platform_b, odds_a, odds_b)
DbIsDuplicate(q) ==
    /\ dbcall' = [op |-> "is_duplicate", opp |-> q, before |-> rows,
                  dup |-> IsDuplicate(rows, q), id |-> NoId]
    /\ UNCHANGED <<engineVars, cycleVars, loopVars, probVars, unitVars, histVars>>

\* insert_opportunity(market_name, platform_a, platform_b, odds_a, odds_b, ...)
DbInsertOpportunity(q) ==
    LET r == InsertOpportunity(rows, q)
    IN  /\ Len(r.store) <= MaxRows
        /\ rows' = r.store
        /\ dbcall' = [op |-> "insert_opportunity", opp |-> q, before |-> rows,
                      dup |-> FALSE, id |-> r.id]
        /\ UNCHANGED <<engineVars, loopVars, probVars, unitVars, histVars, cpc, todo, cur, handed, legs, alert>>

\* mark_bet_placed(opportunity_id) on a stored row
DbMarkBetPlaced(id) ==
    /\ id \in 1..Len(rows)
    /\ rows' = MarkBetPlaced(rows, id)
    /\ dbcall' = [op |-> "mark_bet_placed", before |-> rows, id |-> id]
    /\ UNCHANGED <<engineVars, loopVars, probVars, unitVars, histVars, cpc, todo, cur, handed, legs, alert>>

StoreNext ==
    \/ \E q \in StoreQueries : DbIsDuplicate(q)
    \/ \E q \in StoreQueries : DbInsertOpportunity(q)
    \/ \E id \in 1..MaxRows : DbMarkBetPlaced(id)

StoreSpec == StoreInit /\ [][StoreNext]_vars

-----------------------------------------------------------------------------
(* ArbitrageBot.run: the main loop around _run_cycle, and the shutdown signal *)

\* the opportunities a cycle of the loop may find: a market with a profit of
\* 2% at two odds within 5% of each other, and a second market with a profit
\* under 0.5%
RunOpportunities ==
    {CycleOpportunity("m1", I2R(3), 2), CycleOpportunity("m1", Rat(31, 10), 2),
     CycleOpportunity("m2", I2R(3), 0)}

RunLists == UNION {[1..n -> RunOpportunities] : n \in 1..MaxListLen}

\* the bot as constructed (running = False, line 142) over a fresh database
RunInit ==
    /\ cfg \in {c \in CycleConfigs : c.real_execution}
    /\ env = [pm_key |-> FALSE, cb_key |-> FALSE]
    /\ date = 0
    /\ today = 0
    /\ bets_today = 0
    /\ loss_today = Zero
    /\ pm_executor = "injected"
    /\ cb_executor = "injected"
    /\ pc = "idle"
    /\ inv = [active |-> FALSE]
    /\ calls = << >>
    /\ rows = << >>
    /\ cpc = "idle"
    /\ todo = << >>
    /\ cur = NoId
    /\ handed = << >>
    /\ legs = << >>
    /\ alert = NoAlert
    /\ dbcall = NoCall
    /\ running = FALSE
    /\ lpc = "init"
    /\ err = "none"
    /\ sig = NoSignal
    /\ pe = DefaultThresholds
    /\ match = NoMatch
    /\ opps = << >>
    /\ ppc = "idle"
    /\ sized = NoSizing
    /\ UnitsIdle
    /\ unhedged = {}
    /\ fetched = NoFetch

\* lines 426-435: run sets the flag and installs the signal handlers
RunStart ==
    /\ lpc = "init"
    /\ running' = TRUE
    /\ lpc' = "test"
    /\ UNCHANGED <<engineVars, cycleVars, dbcall, probVars, unitVars, histVars, err, sig>>

\* lines 430-432: signal_handler, run by the interpreter between two
\* instructions of the main thread wherever run happens to be
SignalHandler ==
    /\ running
    /\ running' = FALSE
    /\ sig' = [lpc |-> lpc, cpc |-> cpc]
    /\ UNCHANGED <<engineVars, cycleVars, dbcall, probVars, unitVars, histVars, lpc, err>>

\* the loop test as 'while True'
LoopTest_IgnoresFlag ==
    /\ lpc = "test"
    /\ lpc' = "enter"
    /\ UNCHANGED <<engineVars, cycleVars, dbcall, probVars, unitVars, histVars, running, err, sig>>

\* line 438: while self.running
LoopTest ==
    /\ lpc = "test"
    /\ lpc' = IF running THEN "enter" ELSE "cleanup"
    /\ UNCHANGED <<engineVars, cycleVars, dbcall, probVars, unitVars, histVars, running, err, sig>>

\* lines 440 and 201-203: the coroutine of _run_cycle begins
EnterCycle ==
    /\ lpc = "enter"
    /\ lpc' = "fetch"
    /\ fetched' = NoFetch
    /\ UNCHANGED <<engineVars, cycleVars, dbcall, probVars, unitVars, unhedged, running, err, sig>>

\* what fetch_all_markets and the normalizer leave of a venue: markets, or
\* an empty list (also when the fetch raised, lines 174 and 182)
FetchYields == {"markets", "empty"}

\* what the mock loader and the normalizer leave for a venue whose list is
\* empty: markets, an empty list, or an exception
MockYields == {"markets", "empty", "raise"}

\* lines 186-195: a venue's list after the fallback to mock data
AfterFallback(yield, mock) == IF yield = "empty" THEN mock ELSE yield

\* lines 162-197 and 206-210: both venues are fetched, an empty list is
\* replaced by the mock loader's data, and the cycle goes on if both lists
\* are non-empty then; it is skipped if one is still empty, and an exception
\* out of the fallback is logged at line 293
FetchMarkets(pm, cb, mock_pm, mock_cb) ==
    /\ lpc = "fetch"
    /\ fetched' = [polymarket |-> pm, cloudbet |-> cb, rows |-> Len(rows)]
    /\ LET polymarket_markets == AfterFallback(pm, mock_pm)
           cloudbet_markets == AfterFallback(cb, mock_cb)
           raised == polymarket_markets = "raise" \/ cloudbet_markets = "raise"
       IN  /\ lpc' = IF polymarket_markets = "markets" /\ cloudbet_markets = "markets"
                     THEN "detect" ELSE "after"
           /\ err' = IF raised THEN "cycle" ELSE "none"
    /\ UNCHANGED <<engineVars, cycleVars, dbcall, probVars, unitVars, unhedged, running, sig>>

\* matching, detection and sizing with the handler of line 292 taken away:
\* the exception leaves run
Detect_Unhandled(r) ==
    /\ lpc = "detect"
    /\ lpc' = IF r = "raise" THEN "cleanup" ELSE "after"
    /\ err' = IF r = "raise" THEN "cycle" ELSE err
    /\ UNCHANGED <<engineVars, cycleVars, dbcall, probVars, unitVars, histVars, running, sig>>

\* lines 212-285 and 292-293: matching and detection found nothing ("none",
\* the cycle returns at line 273), or matching, detection or sizing raised
\* ("raise", logged at line 293)
Detect(r) ==
    /\ lpc = "detect"
    /\ lpc' = "after"
    /\ err' = IF r = "raise" THEN "cycle" ELSE err
    /\ UNCHANGED <<engineVars, cycleVars, dbcall, probVars, unitVars, histVars, running, sig>>

\* lines 275-289 and 344-345: the opportunities found are sized and
\* _process_opportunities is entered with them
ProcessOpportunities(list) ==
    /\ lpc = "detect"
    /\ cpc = "idle"
    /\ lpc' = "process"
    /\ cpc' = "loop"
    /\ todo' = list
    /\ cur' = NoId
    /\ handed' = << >>
    /\ legs' = << >>
    /\ alert' = NoAlert
    /\ UNCHANGED <<engineVars, rows, dbcall, probVars, unitVars, histVars, running, err, sig>>

\* lines 350-378 and 419-420: is_duplicate or insert_opportunity raised before
\* anything was written; the error is logged and the loop takes the next one
OpportunityRaised ==
    /\ lpc = "process"
    /\ cpc = "loop"
    /\ todo # << >>
    /\ todo' = Tail(todo)
    /\ err' = "opportunity"
    /\ UNCHANGED <<engineVars, rows, cpc, cur, handed, legs, alert, dbcall, probVars, unitVars, histVars, running, lpc, sig>>

\* lines 289-290: _process_opportunities returned, _run_cycle returns
ProcessReturned ==
    /\ lpc = "process"
    /\ cpc = "idle"
    /\ lpc' = "after"
    /\ UNCHANGED <<engineVars, cycleVars, dbcall, probVars, unitVars, histVars, running, err, sig>>

\* line 442: if self.running, the loop sleeps for the polling interval
AfterCycle ==
    /\ lpc = "after"
    /\ lpc' = IF running THEN "sleep" ELSE "test"
    /\ UNCHANGED <<engineVars, cycleVars, dbcall, probVars, unitVars, histVars, running, err, sig>>

\* line 444: asyncio.sleep(polling_interval) is over
SleepDone ==
    /\ lpc = "sleep"
    /\ lpc' = "test"
    /\ UNCHANGED <<engineVars, cycleVars, dbcall, probVars, unitVars, histVars, running, err, sig>>

\* lines 454-455: _cleanup, then run returns
Cleanup ==
    /\ lpc = "cleanup"
    /\ lpc' = "stopped"
    /\ UNCHANGED <<engineVars, cycleVars, dbcall, probVars, unitVars, histVars, running, err, sig>>

\* the steps of the run coroutine
RunProgress ==
    \/ RunStart
    \/ LoopTest
    \/ EnterCycle
    \/ \E pm \in FetchYields, cb \in FetchYields, mock_pm \in MockYields, mock_cb \in MockYields :
          FetchMarkets(pm, cb, mock_pm, mock_cb)
    \/ \E r \in {"none", "raise"} : Detect(r)
    \/ \E list \in RunLists : ProcessOpportunities(list)
    \/ OpportunityRaised
    \/ SkipDuplicate
    \/ StoreOpportunity
    \/ \E quiet \in BOOLEAN : Autobet(quiet)
    \/ \E r \in AlertResults : AlertReturned(r)
    \/ FinishProcessing
    \/ ProcessReturned
    \/ AfterCycle
    \/ SleepDone
    \/ Cleanup

RunNext ==
    \/ SignalHandler
    \/ RunProgress

\* the event loop keeps resuming the one coroutine it runs: every awaited
\* call returns, raises or times out, and the sleep ends
RunSpec == RunInit /\ [][RunNext]_vars /\ WF_vars(RunProgress)

-----------------------------------------------------------------------------
(* ProbabilityEngine.detect_value_opportunities on one matched event *)

\* cb_teams of the matched event
Teams == <<"team1", "team2">>

\* decimal odds of an outcome: 1 (no price), and the odds whose implied
\* probabilities are 0.6, 0.5, 0.496, 0.4 and 0.25
EventOdds == {I2R(1), Rat(5, 3), I2R(2), Rat(125, 62), Rat(5, 2), I2R(4)}

\* the outcomes of a venue that the name matching assigns to the two teams:
\* an outcome for each team, or for the first team only
OutcomeMaps == UNION {[S -> EventOdds] : S \in {{Teams[1], Teams[2]}, {Teams[1]}}}

MatchedEvents == [pm_outcomes : OutcomeMaps, cb_outcomes : OutcomeMaps]

\* the default thresholds, and a minimum arbitrage profit of 20 percent
Thresholds == {DefaultThresholds, [DefaultThresholds EXCEPT !.min_arbitrage_profit = I2R(20)]}

\* _odds_to_probability
OddsToProbability(odds) ==
    IF RatLeq(odds, I2R(1)) THEN Zero ELSE RatDiv(I2R(1), odds)

\* _probability_to_odds
ProbabilityToOdds(prob) ==
    IF RatLeq(prob, Zero) \/ RatLeq(I2R(1), prob) THEN Zero ELSE RatDiv(I2R(1), prob)

\* dict.get(team, default) on a dict keyed by team
TeamGet(dict, team, default) == IF team \in DOMAIN dict THEN dict[team] ELSE default

\* _map_polymarket_to_teams: the probability of each outcome under its team
MapPolymarketToTeams(pm_outcomes) ==
    [t \in DOMAIN pm_outcomes |-> OddsToProbability(pm_outcomes[t])]

\* _convert_cloudbet_to_probabilities: outcomes with odds <= 1.0 are skipped
ConvertCloudbetToProbabilities(cb_outcomes) ==
    [t \in {u \in DOMAIN cb_outcomes : ~RatLeq(cb_outcomes[u], I2R(1))} |->
        [prob |-> OddsToProbability(cb_outcomes[t]), data |-> [odds |-> cb_outcomes[t]]]]

\* the pairing with the higher sum is taken
ArbitrageTeam_Worse(total_prob_team1, total_prob_team2) ==
    IF RatLt(total_prob_team2, total_prob_team1) THEN Teams[1] ELSE Teams[2]

\* lines 320-337: arb_team, the team backed on Polymarket
ArbitrageTeam(total_prob_team1, total_prob_team2) ==
    IF RatLt(total_prob_team1, total_prob_team2) THEN Teams[1] ELSE Teams[2]

\* the profit taken as the share of the stake that is left over
ProfitPercentage_OfStake(total_prob) ==
    RatMul(RatAdd(I2R(1), RatNeg(total_prob)), I2R(100))

\* line 341: ((1.0 - total_prob) / total_prob) * 100
ProfitPercentage(total_prob) ==
    RatMul(RatDiv(RatAdd(I2R(1), RatNeg(total_prob)), total_prob), I2R(100))

\* lines 411 and 441
BetterPlatform(edge) == IF RatLt(Zero, edge) THEN "polymarket" ELSE "cloudbet"

\* lines 398-418 and 428-448: the value_edge entry of a team, if its edge is
\* large enough
ValueEdge(team, pm_prob, cb_prob, min_value_edge) ==
    LET edge == RatAdd(pm_prob, RatNeg(cb_prob))
    IN  IF RatLeq(min_value_edge, RatAbs(edge))
        THEN <<[type |-> "value_edge",
                team |-> team,
                edge_percentage |-> RatMul(edge, I2R(100)),
                pm_probability |-> pm_prob,
                cb_probability |-> cb_prob,
                pm_odds |-> ProbabilityToOdds(pm_prob),
                cb_odds |-> ProbabilityToOdds(cb_prob),
                better_platform |-> BetterPlatform(edge)]>>
        ELSE << >>

\* the value edges are looked for whether or not an arbitrage was found
ValueEdges_Always(arbitrage_found, pm1, pm2, cb1, cb2, min_value_edge) ==
    ValueEdge(Teams[1], pm1, cb1, min_value_edge) \o ValueEdge(Teams[2], pm2, cb2, min_value_edge)

\* lines 391-456
ValueEdges(arbitrage_found, pm1, pm2, cb1, cb2, min_value_edge) ==
    IF arbitrage_found THEN << >>
    ELSE ValueEdge(Teams[1], pm1, cb1, min_value_edge)
         \o ValueEdge(Teams[2], pm2, cb2, min_value_edge)

\* lines 261-456: what the loop body appends for one matched event
DetectValueOpportunities(m, th) ==
    LET pm_team_probs == MapPolymarketToTeams(m.pm_outcomes)
        cb_team_probs == ConvertCloudbetToProbabilities(m.cb_outcomes)
        pm_prob_team1 == TeamGet(pm_team_probs, Teams[1], Zero)
        pm_prob_team2 == TeamGet(pm_team_probs, Teams[2], Zero)
        cb_prob_team1 == TeamGet(cb_team_probs, Teams[1], [prob |-> Zero]).prob
        cb_prob_team2 == TeamGet(cb_team_probs, Teams[2], [prob |-> Zero]).prob
        total_prob_team1 == RatAdd(pm_prob_team1, cb_prob_team2)
        total_prob_team2 == RatAdd(pm_prob_team2, cb_prob_team1)
        arb_team == ArbitrageTeam(total_prob_team1, total_prob_team2)
        first == arb_team = Teams[1]
        total_prob == IF first THEN total_prob_team1 ELSE total_prob_team2
        pm_team == arb_team
        cb_team == IF first THEN Teams[2] ELSE Teams[1]
        pm_odds == ProbabilityToOdds(IF first THEN pm_prob_team1 ELSE pm_prob_team2)
        cb_odds == ProbabilityToOdds(IF first THEN cb_prob_team2 ELSE cb_prob_team1)
        profit_pct == ProfitPercentage(total_prob)
        arbitrage_found == /\ RatLt(total_prob, I2R(1))
                           /\ RatLeq(th.min_arbitrage_profit, profit_pct)
        arbitrage == [type |-> "arbitrage",
                      team |-> arb_team,
                      pm_probability |-> IF first THEN pm_prob_team1 ELSE pm_prob_team2,
                      cb_probability |-> IF first THEN cb_prob_team2 ELSE cb_prob_team1,
                      pm_odds |-> pm_odds,
                      cb_odds |-> cb_odds,
                      odds_a |-> pm_odds,
                      odds_b |-> cb_odds,
                      total_probability |-> total_prob,
                      profit_percentage |-> profit_pct,
                      outcome_a |-> [name |-> pm_team, odds |-> pm_odds],
                      outcome_b |-> [name |-> cb_team, odds |-> cb_odds]]
    IN  IF Cardinality(DOMAIN pm_team_probs) < 2 \/ Cardinality(DOMAIN cb_team_probs) < 2
        THEN << >>
        ELSE IF Zero \in {pm_prob_team1, pm_prob_team2, cb_prob_team1, cb_prob_team2}
        THEN << >>
        ELSE (IF arbitrage_found THEN <<arbitrage>> ELSE << >>)
             \o ValueEdges(arbitrage_found, pm_prob_team1, pm_prob_team2,
                           cb_prob_team1, cb_prob_team2, th.min_value_edge)

\* an engine with its thresholds and a matched event about to be analysed
ProbInit ==
    /\ cfg \in {c \in Configs : ~c.enabled}
    /\ env = [pm_key |-> FALSE, cb_key |-> FALSE]
    /\ date = 0
    /\ today = 0
    /\ bets_today = 0
    /\ loss_today = Zero
    /\ pm_executor = None
    /\ cb_executor = None
    /\ pc = "idle"
    /\ inv = [active |-> FALSE]
    /\ calls = << >>
    /\ rows = << >>
    /\ cpc = "idle"
    /\ todo = << >>
    /\ cur = NoId
    /\ handed = << >>
    /\ legs = << >>
    /\ alert = NoAlert
    /\ dbcall = NoCall
    /\ running = FALSE
    /\ lpc = "init"
    /\ err = "none"
    /\ sig = NoSignal
    /\ pe \in Thresholds
    /\ match \in MatchedEvents
    /\ opps = << >>
    /\ ppc = "ready"
    /\ sized = NoSizing
    /\ UnitsIdle
    /\ unhedged = {}
    /\ fetched = NoFetch

\* lines 260-456: the loop body on the matched event
DetectEvent ==
    /\ ppc = "ready"
    /\ opps' = DetectValueOpportunities(match, pe)
    /\ ppc' = "done"
    /\ UNCHANGED <<engineVars, cycleVars, dbcall, loopVars, pe, match, sized, unitVars, histVars>>

\* the capital split between two legs
Capitals == {10, 1000}

\* the stake of a leg growing with the odds of that leg
Stake_OwnOdds(total_capital, odds_own, odds_other) ==
    RatDiv(RatMul(I2R(total_capital), odds_own), RatAdd(odds_own, odds_other))

\* the stake of a leg: (total_capital * odds of the other leg) / (sum of the odds)
Stake(total_capital, odds_own, odds_other) ==
    RatDiv(RatMul(I2R(total_capital), odds_other), RatAdd(odds_own, odds_other))

\* the arbitrage of the matched event is sized for a capital
SizeArbitrage(total_capital) ==
    /\ ppc = "done"
    /\ opps # << >>
    /\ opps[1].type = "arbitrage"
    /\ sized' = [total_capital |-> total_capital,
                 odds_a |-> opps[1].odds_a,
                 odds_b |-> opps[1].odds_b,
                 bet_amount_a |-> Stake(total_capital, opps[1].odds_a, opps[1].odds_b),
                 bet_amount_b |-> Stake(total_capital, opps[1].odds_b, opps[1].odds_a)]
    /\ ppc' = "sized"
    /\ UNCHANGED <<engineVars, cycleVars, dbcall, loopVars, pe, match, opps, unitVars, histVars>>

ProbNext ==
    \/ DetectEvent
    \/ \E total_capital \in Capitals : SizeArbitrage(total_capital)

ProbSpec == ProbInit /\ [][ProbNext]_vars

\* the engine, the cycle, the main loop and the probability engine at rest
BotIdle ==
    /\ cfg \in {c \in Configs : ~c.enabled}
    /\ env = [pm_key |-> FALSE, cb_key |-> FALSE]
    /\ date = 0
    /\ today = 0
    /\ bets_today = 0
    /\ loss_today = Zero
    /\ pm_executor = None
    /\ cb_executor = None
    /\ pc = "idle"
    /\ inv = [active |-> FALSE]
    /\ calls = << >>
    /\ rows = << >>
    /\ cpc = "idle"
    /\ todo = << >>
    /\ cur = NoId
    /\ handed = << >>
    /\ legs = << >>
    /\ alert = NoAlert
    /\ dbcall = NoCall
    /\ running = FALSE
    /\ lpc = "init"
    /\ err = "none"
    /\ sig = NoSignal
    /\ pe = DefaultThresholds
    /\ match = NoMatch
    /\ opps = << >>
    /\ ppc = "idle"
    /\ sized = NoSizing

-----------------------------------------------------------------------------
(* EventMatcher._teams_match (src/src/event_matcher.py) on two pairs of team names *)

\* a team name is the sequence of its characters; the characters in the
\* order of their code points
CodePoints ==
    <<" ", "&", ",", "-", ".", "A", "B", "C", "D", "E", "F", "G", "H",
      "I", "J", "K", "L", "M", "N", "O", "P", "Q", "R", "S", "T", "U",
      "V", "W", "X", "Y", "Z", "_", "a", "b", "c", "d", "e", "f", "g",
      "h", "i", "j", "k", "l", "m", "n", "o", "p", "q", "r", "s", "t",
      "u", "v", "w", "x", "y", "z">>
CodePoint(c) == CHOOSE i \in 1..Len(CodePoints) : CodePoints[i] = c

\* str < str
RECURSIVE StrLess(_, _)
StrLess(a, b) ==
    IF b = << >> THEN FALSE
    ELSE IF a = << >> THEN TRUE
    ELSE IF a[1] = b[1] THEN StrLess(Tail(a), Tail(b))
    ELSE CodePoint(a[1]) < CodePoint(b[1])

\* str.strip() of blanks
RECURSIVE LStrip(_)
LStrip(s) == IF s # << >> /\ s[1] = " " THEN LStrip(Tail(s)) ELSE s
RECURSIVE RStrip(_)
RStrip(s) == IF s # << >> /\ s[Len(s)] = " " THEN RStrip(SubSeq(s, 1, Len(s) - 1)) ELSE s
Strip(s) == RStrip(LStrip(s))

\* str.replace(old, new): every occurrence, left to right, without overlap
RECURSIVE Replace(_, _, _)
Replace(s, old, new) ==
    IF Len(s) < Len(old) THEN s
    ELSE IF SubSeq(s, 1, Len(old)) = old
         THEN new \o Replace(SubSeq(s, Len(old) + 1, Len(s)), old, new)
         ELSE <<s[1]>> \o Replace(Tail(s), old, new)

\* str.split(): the words between runs of blanks
RECURSIVE Split(_, _)
Split(s, word) ==
    IF s = << >> THEN (IF word = << >> THEN << >> ELSE <<word>>)
    ELSE IF s[1] = " "
         THEN (IF word = << >> THEN << >> ELSE <<word>>) \o Split(Tail(s), << >>)
         ELSE Split(Tail(s), Append(word, s[1]))

\* ' '.join(words)
RECURSIVE Join(_)
Join(words) ==
    IF words = << >> THEN << >>
    ELSE IF Len(words) = 1 THEN words[1]
    ELSE words[1] \o <<" ">> \o Join(Tail(words))

\* sorted(words)
RECURSIVE Insert(_, _)
Insert(word, sorted) ==
    IF sorted = << >> THEN <<word>>
    ELSE IF StrLess(word, sorted[1]) THEN <<word>> \o sorted
    ELSE <<sorted[1]>> \o Insert(word, Tail(sorted))
RECURSIVE Sorted(_)
Sorted(words) == IF words = << >> THEN << >> ELSE Insert(words[1], Sorted(Tail(words)))

\* lines 56-64
city_patterns ==
    <<<<"l", "o", "s", " ", "a", "n", "g", "e", "l", "e", "s">>,
     <<"l", "a", " ">>, <<"n", "e", "w", " ", "y", "o", "r", "k">>,
     <<"n", "y", " ">>,
     <<"s", "a", "n", " ", "f", "r", "a", "n", "c", "i", "s", "c", "o">>,
     <<"s", "f", " ">>,
     <<"g", "o", "l", "d", "e", "n", " ", "s", "t", "a", "t", "e">>,
     <<"g", "s", " ">>,
     <<"m", "a", "n", "c", "h", "e", "s", "t", "e", "r">>,
     <<"l", "i", "v", "e", "r", "p", "o", "o", "l">>,
     <<"r", "e", "a", "l">>, <<"f", "c", " ">>, <<"c", "f", " ">>,
     <<"a", "c", " ">>, <<"a", "t", "l", "a", "n", "t", "a">>,
     <<"b", "o", "s", "t", "o", "n">>,
     <<"c", "h", "i", "c", "a", "g", "o">>,
     <<"d", "a", "l", "l", "a", "s">>, <<"d", "e", "n", "v", "e", "r">>,
     <<"d", "e", "t", "r", "o", "i", "t">>,
     <<"h", "o", "u", "s", "t", "o", "n">>,
     <<"i", "n", "d", "i", "a", "n", "a">>, <<"m", "i", "a", "m", "i">>,
     <<"m", "i", "l", "w", "a", "u", "k", "e", "e">>,
     <<"m", "i", "n", "n", "e", "s", "o", "t", "a">>,
     <<"n", "e", "w", " ", "o", "r", "l", "e", "a", "n", "s">>,
     <<"o", "k", "l", "a", "h", "o", "m", "a">>,
     <<"o", "r", "l", "a", "n", "d", "o">>,
     <<"p", "h", "i", "l", "a", "d", "e", "l", "p", "h", "i", "a">>,
     <<"p", "h", "o", "e", "n", "i", "x">>,
     <<"p", "o", "r", "t", "l", "a", "n", "d">>,
     <<"s", "a", "c", "r", "a", "m", "e", "n", "t", "o">>,
     <<"s", "a", "n", " ", "a", "n", "t", "o", "n", "i", "o">>,
     <<"t", "o", "r", "o", "n", "t", "o">>, <<"u", "t", "a", "h">>,
     <<"w", "a", "s", "h", "i", "n", "g", "t", "o", "n">>,
     <<"b", "r", "o", "o", "k", "l", "y", "n">>,
     <<"c", "h", "a", "r", "l", "o", "t", "t", "e">>,
     <<"c", "l", "e", "v", "e", "l", "a", "n", "d">>>>

\* lines 69-73
suffixes ==
    <<<<" ", "f", "c">>, <<" ", "c", "f">>,
     <<" ", "u", "n", "i", "t", "e", "d">>, <<" ", "c", "i", "t", "y">>,
     <<" ", "t", "o", "w", "n">>, <<" ", "a", "l", "b", "i", "o", "n">>,
     <<" ", "a", "t", "h", "l", "e", "t", "i", "c">>,
     <<" ", "c", "o", "u", "n", "t", "y">>,
     <<" ", "&", " ", "h", "o", "v", "e", " ", "a", "l", "b", "i", "o", "n">>,
     <<" ", "r", "a", "n", "g", "e", "r", "s">>,
     <<" ", "h", "o", "t", "s", "p", "u", "r">>,
     <<" ", "a", "r", "s", "e", "n", "a", "l">>,
     <<" ", "d", "e", " ", "f", "u", "t", "b", "o", "l">>,
     <<" ", "b", "a", "l", "o", "m", "p", "i", "e">>,
     <<" ", "b", "o", "r", "u", "s", "s", "i", "a">>,
     <<" ", "m", "n", "o", "n", "c", "h", "e", "n", "g", "l", "a", "d", "b", "a", "c", "h">>,
     <<" ", "m", "u", "n", "i", "c", "h">>>>

\* lines 65-66: every city pattern is cut out, the name stripped after each
RECURSIVE RemoveCities(_, _)
RemoveCities(name, i) ==
    IF name = << >> \/ i > Len(city_patterns) THEN name
    ELSE RemoveCities(Strip(Replace(name, city_patterns[i], << >>)), i + 1)

\* lines 74-76: likewise every suffix that occurs in the name
RECURSIVE RemoveSuffixes(_, _)
RemoveSuffixes(name, i) ==
    IF i > Len(suffixes) THEN name
    ELSE IF IsIn(suffixes[i], name)
         THEN RemoveSuffixes(Strip(Replace(name, suffixes[i], << >>)), i + 1)
         ELSE RemoveSuffixes(name, i + 1)

\* _normalize_team_name
NormalizeTeamName(name) ==
    IF name = << >> THEN << >>
    ELSE LET lowered == Strip(Lower(name))
             unprefixed == Replace(Replace(Replace(lowered, <<"s", "-">>, << >>),
                                           <<"h", "-">>, << >>), <<"a", "-">>, << >>)
             trimmed == RemoveSuffixes(RemoveCities(unprefixed, 1), 1)
             separated == Replace(Replace(Replace(Replace(trimmed, <<"-">>, <<" ">>),
                                                  <<"_">>, <<" ">>), <<",">>, << >>),
                                  <<".">>, << >>)
         IN  Join(Split(separated, << >>))

\* the length of the longest common subsequence of two strings
RECURSIVE LCS(_, _)
LCS(a, b) ==
    IF a = << >> \/ b = << >> THEN 0
    ELSE IF a[1] = b[1] THEN 1 + LCS(Tail(a), Tail(b))
    ELSE LET x == LCS(Tail(a), b)
             y == LCS(a, Tail(b))
         IN  IF x >= y THEN x ELSE y

\* rapidfuzz fuzz.ratio: the normalised indel similarity,
\* 100 * 2 * lcs / (len(a) + len(b)), and 100 for two empty strings
Ratio(a, b) ==
    IF Len(a) + Len(b) = 0 THEN I2R(100)
    ELSE Rat(200 * LCS(a, b), Len(a) + Len(b))

\* rapidfuzz fuzz.token_sort_ratio: the ratio of the strings with their
\* words sorted
TokenSortRatio(a, b) ==
    Ratio(Join(Sorted(Split(a, << >>))), Join(Sorted(Split(b, << >>))))

\* team_similarity_threshold: the default, and exact equality
TeamSimilarityThresholds == {65, 100}

\* the names given to _teams_match
TeamNames ==
    {<<"J", "a", "z", "z">>,
     <<"U", "t", "a", "h", " ", "J", "a", "z", "z">>,
     <<"H", "e", "a", "t", " ", "F", "C">>,
     <<"R", "e", "d", " ", "S", "o", "x">>,
     <<"S", "o", "x", " ", "R", "e", "d">>}

\* the verdict when only the pairing in the given order is tried
TeamsMatch_GivenOrder(pm_team1, pm_team2, cb_team1, cb_team2, threshold) ==
    LET pm1_norm == NormalizeTeamName(pm_team1)
        pm2_norm == NormalizeTeamName(pm_team2)
        cb1_norm == NormalizeTeamName(cb_team1)
        cb2_norm == NormalizeTeamName(cb_team2)
        match1 == /\ RatLeq(I2R(threshold), Ratio(pm1_norm, cb1_norm))
                  /\ RatLeq(I2R(threshold), Ratio(pm2_norm, cb2_norm))
        token_match1 == /\ RatLeq(I2R(threshold), TokenSortRatio(pm1_norm, cb1_norm))
                        /\ RatLeq(I2R(threshold), TokenSortRatio(pm2_norm, cb2_norm))
    IN  match1 \/ token_match1

\* _teams_match, lines 123-159: the verdict `result`
TeamsMatch(pm_team1, pm_team2, cb_team1, cb_team2, threshold) ==
    LET pm1_norm == NormalizeTeamName(pm_team1)
        pm2_norm == NormalizeTeamName(pm_team2)
        cb1_norm == NormalizeTeamName(cb_team1)
        cb2_norm == NormalizeTeamName(cb_team2)
        match1 == /\ RatLeq(I2R(threshold), Ratio(pm1_norm, cb1_norm))
                  /\ RatLeq(I2R(threshold), Ratio(pm2_norm, cb2_norm))
        match2 == /\ RatLeq(I2R(threshold), Ratio(pm1_norm, cb2_norm))
                  /\ RatLeq(I2R(threshold), Ratio(pm2_norm, cb1_norm))
        token_match1 == /\ RatLeq(I2R(threshold), TokenSortRatio(pm1_norm, cb1_norm))
                        /\ RatLeq(I2R(threshold), TokenSortRatio(pm2_norm, cb2_norm))
        token_match2 == /\ RatLeq(I2R(threshold), TokenSortRatio(pm1_norm, cb2_norm))
                        /\ RatLeq(I2R(threshold), TokenSortRatio(pm2_norm, cb1_norm))
    IN  match1 \/ match2 \/ token_match1 \/ token_match2

\* an EventMatcher with its threshold, about to compare two pairs of names
MatchInit ==
    /\ BotIdle
    /\ unhedged = {}
    /\ fetched = NoFetch
    /\ NormIdle
    /\ NotifyIdle
    /\ pair \in [pm_team1 : TeamNames, pm_team2 : TeamNames,
                  cb_team1 : TeamNames, cb_team2 : TeamNames,
                  threshold : TeamSimilarityThresholds]
    /\ team_match = FALSE
    /\ mpc = "ready"

\* _teams_match(pm_team1, pm_team2, cb_team1, cb_team2)
MatchTeams ==
    /\ mpc = "ready"
    /\ team_match' = TeamsMatch(pair.pm_team1, pair.pm_team2, pair.cb_team1, pair.cb_team2,
                                pair.threshold)
    /\ mpc' = "done"
    /\ UNCHANGED <<engineVars, cycleVars, dbcall, loopVars, probVars, pair, normVars, notifyVars, histVars>>

MatchNext == MatchTeams

MatchSpec == MatchInit /\ [][MatchNext]_vars

-----------------------------------------------------------------------------
(* MarketNormalizer (src/src/normalizers/market_normalizer.py) *)

\* dict.get(key, default) on a raw record
Get(record, key, default) == IF key \in DOMAIN record THEN record[key] ELSE default

\* dict[key] = value on a dict kept as a sequence of [k, v] items
DictSet(dict, key, value) ==
    IF \E i \in 1..Len(dict) : dict[i].k = key
    THEN [i \in 1..Len(dict) |-> IF dict[i].k = key THEN [k |-> key, v |-> value] ELSE dict[i]]
    ELSE Append(dict, [k |-> key, v |-> value])

\* raw Polymarket markets: two outcomes, one outcome, an empty outcomes
\* dict, no 'outcomes' key, and a title that is None
PolymarketRecords ==
    {[market_id |-> "p1", title |-> "t1", url |-> "",
      outcomes |-> <<[k |-> "YES", v |-> 2], [k |-> "NO", v |-> 2]>>],
     [market_id |-> "p2", title |-> "t2", url |-> "",
      outcomes |-> <<[k |-> "YES", v |-> 2]>>],
     [market_id |-> "p3", title |-> "t3", url |-> "", outcomes |-> << >>],
     [market_id |-> "p4", title |-> "t4", url |-> ""],
     [market_id |-> "p5", title |-> None, url |-> "",
      outcomes |-> <<[k |-> "YES", v |-> 2], [k |-> "NO", v |-> 2]>>]}

\* raw Cloudbet outcomes: one row per outcome of an event's market
CloudbetRows ==
    [event_name : {"e1", "e2"}, market_name : {"ml"}, outcome : {"home", "away"},
     odds : {2}, url : {"", None}]

RawLists(records) == UNION {[1..n -> records] : n \in 0..MaxRaw}

\* NormalizedMarket(...): pydantic rejects a title or a url that is not a str
Validates(market_data) == market_data.title # None /\ market_data.url # None

\* normalize_polymarket, lines 17-35
RECURSIVE NormalizePolymarket(_)
NormalizePolymarket(raw_markets) ==
    IF raw_markets = << >> THEN << >>
    ELSE LET market == raw_markets[1]
             norm == [platform |-> "polymarket",
                      market_id |-> Get(market, "market_id", ""),
                      title |-> Get(market, "title", ""),
                      outcomes |-> Get(market, "outcomes", << >>),
                      url |-> Get(market, "url", "")]
         IN  (IF Validates(norm) THEN <<norm>> ELSE << >>)
                 \o NormalizePolymarket(Tail(raw_markets))

\* normalize_cloudbet, lines 40-66: the outcomes grouped by event and market
RECURSIVE GroupOutcomes(_, _)
GroupOutcomes(raw_outcomes, markets_dict) ==
    IF raw_outcomes = << >> THEN markets_dict
    ELSE LET outcome == raw_outcomes[1]
             key == <<Get(outcome, "event_name", "Unknown"), Get(outcome, "market_name", "Unknown")>>
             present == \E i \in 1..Len(markets_dict) : markets_dict[i].k = key
             market == IF present THEN DictGet(markets_dict, key)
                       ELSE [platform |-> "cloudbet", market_id |-> key, title |-> key,
                             outcomes |-> << >>, url |-> Get(outcome, "url", "")]
             filled == [market EXCEPT !.outcomes =
                           DictSet(@, Get(outcome, "outcome", "Unknown"), Get(outcome, "odds", 0))]
         IN  GroupOutcomes(Tail(raw_outcomes), DictSet(markets_dict, key, filled))

\* lines 69-78: the markets with at least 2 outcomes are converted
RECURSIVE ConvertMarkets(_)
ConvertMarkets(markets_dict) ==
    IF markets_dict = << >> THEN << >>
    ELSE LET market_data == markets_dict[1].v
         IN  (IF Len(market_data.outcomes) >= 2 /\ Validates(market_data)
              THEN <<market_data>> ELSE << >>)
                 \o ConvertMarkets(Tail(markets_dict))

\* normalize_cloudbet
NormalizeCloudbet(raw_outcomes) == ConvertMarkets(GroupOutcomes(raw_outcomes, << >>))

\* a MarketNormalizer about to be given the raw records of a venue
NormInit ==
    /\ BotIdle
    /\ unhedged = {}
    /\ fetched = NoFetch
    /\ MatchIdle
    /\ NotifyIdle
    /\ \/ raw \in [venue : {"polymarket"}, records : RawLists(PolymarketRecords)]
       \/ raw \in [venue : {"cloudbet"}, records : RawLists(CloudbetRows)]
    /\ normalized = << >>
    /\ npc = "ready"

\* normalize_polymarket(raw_markets)
CallNormalizePolymarket ==
    /\ npc = "ready"
    /\ raw.venue = "polymarket"
    /\ normalized' = NormalizePolymarket(raw.records)
    /\ npc' = "done"
    /\ UNCHANGED <<engineVars, cycleVars, dbcall, loopVars, probVars, matchVars, raw, notifyVars, histVars>>

\* normalize_cloudbet(raw_outcomes)
CallNormalizeCloudbet ==
    /\ npc = "ready"
    /\ raw.venue = "cloudbet"
    /\ normalized' = NormalizeCloudbet(raw.records)
    /\ npc' = "done"
    /\ UNCHANGED <<engineVars, cycleVars, dbcall, loopVars, probVars, matchVars, raw, notifyVars, histVars>>

NormNext == CallNormalizePolymarket \/ CallNormalizeCloudbet

NormSpec == NormInit /\ [][NormNext]_vars

-----------------------------------------------------------------------------
(* TelegramNotifier.send_message (src/src/telegram_notifier.py) *)

\* line 53
max_retries == 3

\* what an attempt meets: the send returns, or raises RetryAfter, TimedOut or
\* NetworkError, another TelegramError, asyncio.TimeoutError, or anything else
AttemptOutcomes ==
    {"sent", "RetryAfter", "NetworkError", "TelegramError", "TimeoutError", "Exception"}

\* lines 41-43: the chat, and the channel if one is configured
RecipientLists == {<<"chat">>, <<"chat", "channel">>}

\* a notifier about to send a message
NotifyInit ==
    /\ BotIdle
    /\ unhedged = {}
    /\ fetched = NoFetch
    /\ MatchIdle
    /\ NormIdle
    /\ recipient_ids \in RecipientLists
    /\ send = NoSend
    /\ tpc = "ready"

\* lines 185-190: all_success = True, the first recipient, the first attempt
SendMessage ==
    /\ tpc = "ready"
    /\ send' = [recipient |-> 1, attempt |-> 1, all_success |-> TRUE,
                delivered |-> {}, met |-> << >>]
    /\ tpc' = "sending"
    /\ UNCHANGED <<engineVars, cycleVars, dbcall, loopVars, probVars, matchVars, normVars,
                   recipient_ids, histVars>>

\* `break`, or the attempts used up: on to the next recipient
NextRecipient(s) == [s EXCEPT !.recipient = @ + 1, !.attempt = 1]

\* `continue`: the next attempt, if there is one left
NextAttempt(s) ==
    IF s.attempt < max_retries THEN [s EXCEPT !.attempt = @ + 1] ELSE NextRecipient(s)

\* lines 191-248: one attempt for the recipient at hand
Attempt(outcome) ==
    /\ tpc = "sending"
    /\ send.recipient <= Len(recipient_ids)
    /\ LET s == [send EXCEPT !.met = Append(@, outcome)]
       IN  send' =
             CASE outcome = "sent" ->
                    NextRecipient([s EXCEPT !.delivered = @ \cup {recipient_ids[s.recipient]}])
               [] outcome = "RetryAfter" -> NextAttempt(s)
               [] outcome \in {"NetworkError", "TimeoutError"} ->
                    IF s.attempt < max_retries THEN NextAttempt(s)
                    ELSE NextRecipient([s EXCEPT !.all_success = FALSE])
               [] OTHER -> NextRecipient([s EXCEPT !.all_success = FALSE])
    /\ UNCHANGED <<engineVars, cycleVars, dbcall, loopVars, probVars, matchVars, normVars,
                   recipient_ids, tpc, histVars>>

\* line 250: return all_success
SendReturned ==
    /\ tpc = "sending"
    /\ send.recipient > Len(recipient_ids)
    /\ tpc' = "returned"
    /\ UNCHANGED <<engineVars, cycleVars, dbcall, loopVars, probVars, matchVars, normVars,
                   recipient_ids, send, histVars>>

NotifyNext ==
    \/ SendMessage
    \/ \E outcome \in AttemptOutcomes : Attempt(outcome)
    \/ SendReturned

NotifySpec == NotifyInit /\ [][NotifyNext]_vars

-----------------------------------------------------------------------------
(* Reading the record of an invocation *)

Has(op) == \E k \in 1..Len(calls) : calls[k].op = op
Count(op) == Cardinality({k \in 1..Len(calls) : calls[k].op = op})
Returned(op, r) == \E k \in 1..Len(calls) : calls[k].op = op /\ calls[k].args[1] = r
HasLog(level) ==
    \E k \in 1..Len(calls) : calls[k].op = "log" /\ calls[k].args[1] = level
Leg(op) == calls[CHOOSE k \in 1..Len(calls) : calls[k].op = op]

LegBFailed == Returned("place_bet_ret", "fail") \/ Returned("place_bet_ret", "raise")

\* RiskState as the spec names it: the counters of the current local date
BetsPlacedToday == IF today = date THEN bets_today ELSE 0
LossAccruedToday == IF today = date THEN loss_today ELSE Zero

\* bankroll * max_stake_fraction
StakeCap == Rat(cfg.bankroll * cfg.max_stake_fraction.n, cfg.max_stake_fraction.d)

-----------------------------------------------------------------------------
(* C1: with real execution enabled, when the venue-B leg call does not      *)
(* succeed (it returns failure or raises) or the venue-B identifier cannot  *)
(* be resolved, the invocation never calls the venue-A leg and never calls  *)
(* mark_bet_placed.                                                         *)
C1_HedgeAbort ==
    (/\ inv.active
     /\ cfg.real_execution
     /\ inv.approved
     /\ LegBFailed \/ (pc = "returned" /\ ~Truthy(ResolveSelectionId(inv.orig))))
    => (~Has("place_order") /\ ~Has("mark_bet_placed"))

C1_Witness ==
    /\ pc = "returned"
    /\ cfg.real_execution
    /\ Returned("place_bet_ret", "fail")
    /\ inv.started = FALSE

(* C2: every venue-A order call in an invocation comes after a venue-B      *)
(* placement call for the same opportunity that returned success.           *)
C2_VenueBFirst ==
    \A k \in 1..Len(calls) :
        calls[k].op = "place_order" =>
            \E h \in 1..(k - 1) : \E g \in 1..(h - 1) :
                /\ calls[g].op = "place_bet"
                /\ calls[g].args[1] = ResolveSelectionId(inv.orig)
                /\ calls[h].op = "place_bet_ret"
                /\ calls[h].args[1] = "ok"
                /\ calls[k].args[1] = ResolveTokenId(inv.orig)

C2_Witness == pc = "awaitA" /\ Has("place_order") /\ cfg.real_execution

(* C3 as stated: with real execution enabled, mark_bet_placed is called     *)
(* only if both the venue-B leg and the venue-A leg were placed             *)
(* successfully in that invocation.                                         *)
C3_Original ==
    (cfg.real_execution /\ Has("mark_bet_placed"))
    => (Returned("place_bet_ret", "ok") /\ Returned("place_order_ret", "ok"))

(* C3 amended: with real execution enabled, mark_bet_placed is called only  *)
(* if the venue-B leg was placed successfully and the venue-A leg call was  *)
(* made and returned (with a response or with a failure, not by raising).   *)
C3_Amended ==
    (cfg.real_execution /\ Has("mark_bet_placed"))
    => /\ Returned("place_bet_ret", "ok")
       /\ Returned("place_order_ret", "ok") \/ Returned("place_order_ret", "fail")

C3_Witness ==
    /\ cfg.real_execution
    /\ Has("mark_bet_placed")
    /\ Returned("place_order_ret", "fail")

(* C4: when the venue-B leg was placed and the venue-A leg was not (it      *)
(* returned failure, or an exception occurred after the venue-B success),   *)
(* the invocation has emitted a critical alert by the time it returns.      *)
C4_UnhedgedAlert ==
    (/\ pc = "returned"
     /\ cfg.real_execution
     /\ Returned("place_bet_ret", "ok")
     /\ ~Returned("place_order_ret", "ok"))
    => HasLog("critical")

(* C5: with max_bets_per_day = N > 0 the counter of bets placed today never *)
(* exceeds N, and an opportunity is approved only while it is below N.      *)
C5_DailyCap ==
    cfg.max_bets_per_day > 0 =>
        /\ bets_today <= cfg.max_bets_per_day
        /\ (inv.active /\ inv.approved /\ ~inv.recorded) => bets_today < cfg.max_bets_per_day

C5_Witness ==
    /\ pc = "returned"
    /\ cfg.enabled
    /\ cfg.max_bets_per_day > 0
    /\ cfg.daily_loss_limit = 0
    /\ bets_today = cfg.max_bets_per_day
    /\ today = date
    /\ ~inv.approved
    /\ inv.orig.type = "arbitrage"
    /\ inv.orig.profit_percentage > cfg.min_profit_threshold

(* C6: an invocation on a value_edge opportunity is never approved, calls   *)
(* neither leg, never calls mark_bet_placed and never increments the        *)
(* counter of bets placed today, whatever the configuration.                *)
C6_ValueEdgeNeverExecuted ==
    [][(inv'.active /\ inv'.orig.type = "value_edge")
       => /\ ~inv'.approved
          /\ calls' = << >>
          /\ pc' = "returned"
          /\ bets_today' <= bets_today]_vars

C6_Witness ==
    /\ pc = "returned"
    /\ cfg.enabled
    /\ inv.orig.type = "value_edge"
    /\ inv.orig.profit_percentage >= cfg.min_profit_threshold
    /\ cfg.max_bets_per_day = 0
    /\ cfg.daily_loss_limit = 0

(* C7: an invocation approves its opportunity exactly when the engine is    *)
(* enabled, profit_percentage >= min_profit_threshold, the type is          *)
(* arbitrage, the daily bet cap is off or not reached and the daily loss    *)
(* limit is off or not reached (both counters read for the current local    *)
(* date); a rejected invocation calls nothing, records nothing and leaves   *)
(* both counters of the current date as they were.                          *)
C7_GateHolds(opp) ==
    /\ cfg.enabled
    /\ opp.profit_percentage >= cfg.min_profit_threshold
    /\ opp.type = "arbitrage"
    /\ cfg.max_bets_per_day = 0 \/ BetsPlacedToday < cfg.max_bets_per_day
    /\ cfg.daily_loss_limit = 0 \/ RatLt(I2R(-cfg.daily_loss_limit), LossAccruedToday)

C7_AdmissionGate ==
    [][(pc = "idle" /\ pc' # "idle")
       => /\ inv'.approved <=> C7_GateHolds(inv'.orig)
          /\ ~inv'.approved =>
                /\ pc' = "returned"
                /\ calls' = << >>
                /\ BetsPlacedToday' = BetsPlacedToday
                /\ LossAccruedToday' = LossAccruedToday]_vars

C7_Witness ==
    /\ pc = "returned"
    /\ ~inv.approved
    /\ cfg.enabled
    /\ inv.orig.type = "arbitrage"
    /\ inv.orig.profit_percentage >= cfg.min_profit_threshold
    /\ cfg.max_bets_per_day = 0
    /\ cfg.daily_loss_limit > 0
    /\ RatLeq(loss_today, I2R(-cfg.daily_loss_limit))


(* C8 as stated: for every approved opportunity and every configuration,    *)
(* the stakes handed to the two leg calls sum to at most                    *)
(* bankroll * max_stake_fraction; when the required capital exceeds that    *)
(* cap, both stakes and the guaranteed profit are multiplied by             *)
(* cap / total_capital before the first leg call.                           *)
C8_StakeB == IF Has("place_bet") THEN Leg("place_bet").args[3] ELSE Zero
C8_StakeA == IF Has("place_order") THEN Leg("place_order").args[4] ELSE Zero

C8_Capped ==
    LET factor == RatDiv(StakeCap, inv.orig.total_capital)
    IN  /\ RatLeq(RatAdd(C8_StakeA, C8_StakeB), StakeCap)
        /\ RatLt(StakeCap, inv.orig.total_capital) =>
              /\ inv.opp.bet_amount_a = RatMul(inv.orig.bet_amount_a, factor)
              /\ inv.opp.bet_amount_b = RatMul(inv.orig.bet_amount_b, factor)
              /\ inv.opp.guaranteed_profit = RatMul(inv.orig.guaranteed_profit, factor)
              /\ Has("place_bet") => C8_StakeB = RatMul(inv.orig.bet_amount_b, factor)
              /\ Has("place_order") => C8_StakeA = RatMul(inv.orig.bet_amount_a, factor)
              /\ Has("mark_bet_placed") =>
                    Leg("mark_bet_placed").args[2] = RatMul(inv.orig.guaranteed_profit, factor)

C8_Original == (inv.active /\ inv.approved) => C8_Capped

(* C8 amended: the same, for every configuration whose cap                  *)
(* bankroll * max_stake_fraction is greater than 0.                         *)
C8_Amended == (inv.active /\ inv.approved /\ RatLt(Zero, StakeCap)) => C8_Capped

C8_Witness ==
    /\ pc = "awaitA"
    /\ RatLt(Zero, StakeCap)
    /\ RatLt(StakeCap, inv.orig.total_capital)
    /\ Has("place_bet") /\ Has("place_order")

(* C9: with real execution disabled, an invocation whose opportunity passes *)
(* the gate calls mark_bet_placed exactly once, for the row id it was       *)
(* given, and calls neither execution collaborator.                         *)
C9_SimulationMode ==
    (inv.active /\ inv.approved /\ ~cfg.real_execution)
    => /\ pc = "returned"
       /\ Count("mark_bet_placed") = 1
       /\ Leg("mark_bet_placed").args[1] = inv.db_id
       /\ ~Has("place_bet") /\ ~Has("place_order")

C9_Witness ==
    /\ pc = "returned"
    /\ ~cfg.real_execution
    /\ inv.approved
    /\ inv.db_id = 2
    /\ Has("mark_bet_placed")

-----------------------------------------------------------------------------
(* Reading the record of a cycle *)

LegCount(op, id) == Cardinality({k \in 1..Len(legs) : legs[k] = LegCall(op, id)})
HandedCount(id) == Cardinality({k \in 1..Len(handed) : handed[k] = id})

-----------------------------------------------------------------------------
(* Reading the record of a database call *)

SameMarketVenues(row, q) ==
    /\ row.market_name = q.market_name
    /\ row.platform_a = q.platform_a
    /\ row.platform_b = q.platform_b

\* the queried odds are within 5% of the row's odds on both sides
WithinFivePercent(row, q) ==
    /\ RatLeq(OddsChange(q.odds_a, row.odds_a), Rat(1, 20))
    /\ RatLeq(OddsChange(q.odds_b, row.odds_b), Rat(1, 20))

PriorRecords(q) == {k \in 1..Len(dbcall.before) : SameMarketVenues(dbcall.before[k], q)}

PlacedDuplicateExists(q) ==
    \E k \in PriorRecords(q) :
        /\ WithinFivePercent(dbcall.before[k], q)
        /\ dbcall.before[k].bet_placed = 1

(* C11: is_duplicate returns true only if the store holds a prior record    *)
(* for the same market and venues whose odds are within 5% of the queried   *)
(* odds on both sides and whose bet_placed flag is set; if every prior      *)
(* record for that market and venues is unplaced it returns false.          *)
C11_DuplicateOnlyIfPlaced ==
    dbcall.op = "is_duplicate" =>
        /\ dbcall.dup => PlacedDuplicateExists(dbcall.opp)
        /\ (\A k \in PriorRecords(dbcall.opp) : dbcall.before[k].bet_placed = 0) => ~dbcall.dup

(* C12: when the store holds an unplaced row with the same market, venues   *)
(* and odds, insert_opportunity returns that row's id and adds no row.      *)
C12_RetryFriendlyInsert ==
    dbcall.op = "insert_opportunity" =>
        \A k \in PriorRecords(dbcall.opp) :
            (/\ dbcall.before[k].odds_a = dbcall.opp.odds_a
             /\ dbcall.before[k].odds_b = dbcall.opp.odds_b
             /\ dbcall.before[k].bet_placed = 0)
            => (dbcall.id = k /\ rows = dbcall.before)

\* a second insert of the odds of row 1, after another row was stored
C12_Witness ==
    /\ dbcall.op = "insert_opportunity"
    /\ Len(dbcall.before) >= 2
    /\ 1 \in PriorRecords(dbcall.opp)
    /\ dbcall.before[1].odds_a = dbcall.opp.odds_a
    /\ dbcall.before[1].odds_b = dbcall.opp.odds_b
    /\ dbcall.before[1].bet_placed = 0
    /\ dbcall.id = 1

\* the queried odds differ from the row's odds by more than 5% on some side
DriftedFrom(row, q) ==
    \/ RatLt(Rat(1, 20), OddsChange(q.odds_a, row.odds_a))
    \/ RatLt(Rat(1, 20), OddsChange(q.odds_b, row.odds_b))

InsertedNewRow ==
    /\ dbcall.id = Len(dbcall.before) + 1
    /\ rows = Append(dbcall.before, NewRow(dbcall.opp))

(* C13 as stated: when the odds differ by more than 5% on at least one side *)
(* from a prior record of the market and venues, is_duplicate returns false *)
(* and insert_opportunity inserts a new row and returns its new id,         *)
(* whatever the bet_placed flags (taken for odds that are not themselves    *)
(* stored under that market and venues).                                    *)
C13_Original ==
    (/\ dbcall.op \in {"is_duplicate", "insert_opportunity"}
     /\ RowWithHash(dbcall.before, OpportunityHash(dbcall.opp)) = 0
     /\ \E k \in PriorRecords(dbcall.opp) : DriftedFrom(dbcall.before[k], dbcall.opp))
    => IF dbcall.op = "is_duplicate" THEN ~dbcall.dup ELSE InsertedNewRow

(* C13 amended: the same when the odds differ by more than 5% on at least   *)
(* one side from every prior record of the market and venues.               *)
C13_Amended ==
    (/\ dbcall.op \in {"is_duplicate", "insert_opportunity"}
     /\ PriorRecords(dbcall.opp) # {}
     /\ \A k \in PriorRecords(dbcall.opp) : DriftedFrom(dbcall.before[k], dbcall.opp))
    => IF dbcall.op = "is_duplicate" THEN ~dbcall.dup ELSE InsertedNewRow

\* a row inserted beside two prior records of its market, one of them placed
C13_Witness ==
    /\ dbcall.op = "insert_opportunity"
    /\ Cardinality(PriorRecords(dbcall.opp)) >= 2
    /\ \A k \in PriorRecords(dbcall.opp) : DriftedFrom(dbcall.before[k], dbcall.opp)
    /\ \E k \in PriorRecords(dbcall.opp) : dbcall.before[k].bet_placed = 1
    /\ InsertedNewRow

(* C14: insert_opportunity returns None only if a placed duplicate exists;  *)
(* otherwise it returns the id of the existing unplaced row with the same   *)
(* identity, leaving the store alone, or the id of a freshly inserted row.  *)
C14_NoneOnlyIfPlaced ==
    dbcall.op = "insert_opportunity" =>
        /\ dbcall.id = NoId => PlacedDuplicateExists(dbcall.opp)
        /\ dbcall.id # NoId =>
              \/ InsertedNewRow
              \/ /\ rows = dbcall.before
                 /\ dbcall.id \in 1..Len(dbcall.before)
                 /\ dbcall.before[dbcall.id].opportunity_hash = OpportunityHash(dbcall.opp)
                 /\ dbcall.before[dbcall.id].bet_placed = 0

-----------------------------------------------------------------------------
(* Reading the record of an alert *)

\* the step in which the alert block of the opportunity in hand is left
AlertStep == cpc = "alert" /\ cycleVars' # cycleVars

-----------------------------------------------------------------------------
(* Reading the position of the main loop *)

Exited == lpc \in {"cleanup", "stopped"}

C17_ErrorsDoNotStop ==
    /\ [](Exited => ~running)
    /\ (err # "none") ~> (~running \/ lpc = "sleep")
    /\ (lpc = "sleep") ~> (~running \/ lpc = "fetch")

\* a cycle begins after a cycle in which an opportunity raised
C17_Witness ==
    /\ lpc = "fetch"
    /\ running
    /\ err = "opportunity"

-----------------------------------------------------------------------------
(* Reading the opportunities of a matched event *)

ArbitrageEntries == {k \in 1..Len(opps) : opps[k].type = "arbitrage"}
ValueEdgeEntries == {k \in 1..Len(opps) : opps[k].type = "value_edge"}

\* implied probabilities of the event's outcomes, from its odds
PmImplied(team) == RatDiv(I2R(1), match.pm_outcomes[team])
CbImplied(team) == RatDiv(I2R(1), match.cb_outcomes[team])
Other(team) == IF team = Teams[1] THEN Teams[2] ELSE Teams[1]

\* the summed implied probability of backing the team on Polymarket and the
\* other team on Cloudbet
PairingSum(team) == RatAdd(PmImplied(team), CbImplied(Other(team)))

(* C18: for a matched event at most one arbitrage is emitted, and it uses   *)
(* the pairing whose summed implied probability is the lower of the two;    *)
(* on an exact tie it is the pairing that backs the second team on          *)
(* Polymarket.                                                              *)
C18_OneArbitrageLowerSum ==
    ppc = "done" =>
        /\ Cardinality(ArbitrageEntries) <= 1
        /\ \A k \in ArbitrageEntries :
              LET o == opps[k]
              IN  /\ RatLeq(PairingSum(o.team), PairingSum(Other(o.team)))
                  /\ PairingSum(o.team) = PairingSum(Other(o.team)) => o.team = Teams[2]
                  /\ o.total_probability = PairingSum(o.team)
                  /\ o.outcome_a.name = o.team
                  /\ o.outcome_b.name = Other(o.team)
                  /\ o.pm_probability = PmImplied(o.team)
                  /\ o.cb_probability = CbImplied(Other(o.team))
                  /\ o.odds_a = match.pm_outcomes[o.team]
                  /\ o.odds_b = match.cb_outcomes[Other(o.team)]

\* both pairings sum to less than 1, the first to less than the second, and
\* the one arbitrage emitted is the first
C18_Witness ==
    /\ ppc = "done"
    /\ ArbitrageEntries # {}
    /\ RatLt(PairingSum(Teams[1]), PairingSum(Teams[2]))
    /\ RatLt(PairingSum(Teams[2]), I2R(1))
    /\ opps[1].team = Teams[1]

(* C19: the opportunities of a matched event never hold both an arbitrage   *)
(* and a value_edge entry, and hold at most two value_edge entries, one per *)
(* competitor.                                                              *)
C19_ValueEdgeOnlyWithoutArbitrage ==
    ppc = "done" =>
        /\ ~(ArbitrageEntries # {} /\ ValueEdgeEntries # {})
        /\ Cardinality(ValueEdgeEntries) <= 2
        /\ \A j, k \in ValueEdgeEntries : opps[j].team = opps[k].team => j = k

\* an arbitrage was emitted for an event whose first competitor is priced
\* 0.1 apart by the two venues: no value_edge entry beside it
C19_Witness ==
    /\ ppc = "done"
    /\ ArbitrageEntries # {}
    /\ Teams[1] \in DOMAIN match.pm_outcomes
    /\ Teams[1] \in DOMAIN match.cb_outcomes
    /\ RatLeq(pe.min_value_edge, RatAbs(RatAdd(PmImplied(Teams[1]), RatNeg(CbImplied(Teams[1])))))

(* C20: every value_edge entry names as better_platform the venue whose     *)
(* implied probability for that competitor is the lower of the two, the     *)
(* venue with the higher decimal odds.                                      *)
C20_BetterPlatformLowerProbability ==
    ppc = "done" =>
        \A k \in ValueEdgeEntries :
            LET o == opps[k]
            IN  /\ o.better_platform = "polymarket"
                     => RatLt(PmImplied(o.team), CbImplied(o.team))
                /\ o.better_platform = "cloudbet"
                     => RatLt(CbImplied(o.team), PmImplied(o.team))

\* both teams carry a price above 1 on both venues
FullyPriced ==
    /\ DOMAIN match.pm_outcomes = {Teams[1], Teams[2]}
    /\ DOMAIN match.cb_outcomes = {Teams[1], Teams[2]}
    /\ \A t \in {Teams[1], Teams[2]} :
          RatLt(I2R(1), match.pm_outcomes[t]) /\ RatLt(I2R(1), match.cb_outcomes[t])

\* the pairing the engine reports on: the lower sum, the second on a tie
LowerPairing ==
    IF RatLt(PairingSum(Teams[1]), PairingSum(Teams[2])) THEN Teams[1] ELSE Teams[2]

\* (1/(1/o1 + 1/o2) - 1) * 100 for the odds of the pairing
ClaimedProfit(team) ==
    RatMul(RatAdd(RatDiv(I2R(1), PairingSum(team)), RatNeg(I2R(1))), I2R(100))

(* C21 as stated: for the odds of opposite outcomes across the two venues   *)
(* with 1/o1 + 1/o2 < 1 an arbitrage is reported whose profit_percentage is *)
(* (1/(1/o1 + 1/o2) - 1) * 100 (taken for a fully priced event and for the  *)
(* pairing with the lower sum).                                             *)
C21_Original ==
    (ppc = "done" /\ FullyPriced /\ RatLt(PairingSum(LowerPairing), I2R(1)))
    => \E k \in ArbitrageEntries :
          /\ opps[k].team = LowerPairing
          /\ opps[k].profit_percentage = ClaimedProfit(LowerPairing)

(* C21 amended: for a fully priced event an arbitrage is reported exactly   *)
(* when the lower pairing sum is under 1 and (1/sum - 1) * 100 is at least  *)
(* min_arbitrage_profit; it is reported for that pairing with that value as *)
(* profit_percentage.                                                       *)
C21_Amended ==
    (ppc = "done" /\ FullyPriced)
    => /\ (ArbitrageEntries # {})
            <=> (/\ RatLt(PairingSum(LowerPairing), I2R(1))
                 /\ RatLeq(pe.min_arbitrage_profit, ClaimedProfit(LowerPairing)))
       /\ \A k \in ArbitrageEntries :
             /\ opps[k].team = LowerPairing
             /\ opps[k].profit_percentage = ClaimedProfit(LowerPairing)

\* an arbitrage reported at the default minimum with a profit of 1/9 of 100
C21_Witness ==
    /\ ppc = "done"
    /\ FullyPriced
    /\ pe = DefaultThresholds
    /\ ArbitrageEntries # {}
    /\ PairingSum(LowerPairing) = Rat(9, 10)
    /\ opps[1].profit_percentage = Rat(100, 9)

-----------------------------------------------------------------------------
(* Reading the stakes of an arbitrage *)

\* what a leg pays back when its outcome wins, less the capital
ProfitIfWins(stake, odds) == RatAdd(RatMul(stake, odds), RatNeg(I2R(sized.total_capital)))

-----------------------------------------------------------------------------
(* Reading the verdict of a team match *)

(* C23: the verdict of _teams_match is the same when the two Cloudbet teams  *)
(* are swapped and when the two Polymarket teams are swapped.               *)
C23_OrderIndependent ==
    mpc = "done" =>
        /\ team_match = TeamsMatch(pair.pm_team1, pair.pm_team2, pair.cb_team2, pair.cb_team1,
                                   pair.threshold)
        /\ team_match = TeamsMatch(pair.pm_team2, pair.pm_team1, pair.cb_team1, pair.cb_team2,
                                   pair.threshold)

\* ("Jazz", "Sox Red") matches ("Red Sox", "Utah Jazz") at the default
\* threshold: the pairs are in opposite order and agree after normalisation
\* and word sorting only
C23_Witness ==
    /\ mpc = "done"
    /\ team_match
    /\ pair = [pm_team1 |-> <<"J", "a", "z", "z">>, pm_team2 |-> <<"S", "o", "x", " ", "R", "e", "d">>,
               cb_team1 |-> <<"R", "e", "d", " ", "S", "o", "x">>, cb_team2 |-> <<"U", "t", "a", "h", " ", "J", "a", "z", "z">>, threshold |-> 65]
    /\ ~TeamsMatch_GivenOrder(pair.pm_team1, pair.pm_team2, pair.cb_team1, pair.cb_team2,
                              pair.threshold)

-----------------------------------------------------------------------------
(* Reading the markets of a normalisation *)

(* C24: every market the normalizer returns, for either venue, has at least *)
(* 2 outcomes.                                                              *)
C24_AtLeastTwoOutcomes ==
    npc = "done" => \A i \in 1..Len(normalized) : Len(normalized[i].outcomes) >= 2

-----------------------------------------------------------------------------
(* Reading the counters of the risk gate *)

\* should_autobet is evaluated in this step
Evaluation == pc = "idle" /\ pc' # "idle"

\* the counters of a date on which nothing was placed
FreshCounters == [today |-> date, bets |-> 0, loss |-> Zero]

(* C25: an admission evaluation on a local date other than the date of the  *)
(* last reset takes that date over and decides on counters of 0 (a bet it   *)
(* records is the first of the date); no other step, and no evaluation on   *)
(* the date of the last reset, changes the date kept or lowers the bets     *)
(* counter or raises the loss counter back.                                 *)
C25_ResetAtRollover ==
    [][/\ (Evaluation /\ date # today) =>
            /\ cfg.enabled => today' = date
            /\ inv'.approved = ShouldAutobet(inv'.orig, FreshCounters)
            /\ bets_today' = (IF inv'.recorded THEN 1 ELSE 0)
            /\ ~inv'.recorded => loss_today' = Zero
       /\ (~Evaluation \/ date = today) =>
            /\ today' = today
            /\ bets_today' >= bets_today
            /\ RatLeq(loss_today', loss_today)
      ]_vars

\* an approval on date 1 by an engine that had reached its cap of 2 bets on
\* date 0 or not: the bet recorded is the first of date 1
C25_Witness ==
    /\ date = 1
    /\ today = 1
    /\ pc = "returned"
    /\ inv.approved
    /\ inv.recorded
    /\ cfg.max_bets_per_day = 2
    /\ bets_today = 1

-----------------------------------------------------------------------------
(* Reading the record of a send *)

(* C26: send_message returns True only if the message was delivered to      *)
(* every configured recipient.                                              *)
C26_TrueOnlyIfDelivered ==
    (tpc = "returned" /\ send.all_success) =>
        send.delivered = {recipient_ids[i] : i \in 1..Len(recipient_ids)}

-----------------------------------------------------------------------------
(* Reading the store at the end of a cycle *)

(* C27: when a cycle has finished with real execution disabled, every row   *)
(* it handed to the autobet evaluation and whose opportunity the admission  *)
(* gate approves has bet_placed = 1.                                        *)
C27_SimulatedBetRecorded ==
    (cpc = "idle" /\ ~cfg.real_execution) =>
        \A i \in 1..Len(handed) :
            ShouldAutobet(CycleOpportunity(rows[handed[i]].market_name,
                                           rows[handed[i]].odds_a, 2), CountersAtGate)
                => rows[handed[i]].bet_placed = 1

-----------------------------------------------------------------------------
(* Reading the legs of a real execution *)

(* C28: with real execution enabled, both executors initialised and both    *)
(* identifiers resolved, the venue-B collaborator receives the call with    *)
(* (selection id, odds_b, bet_amount_b); if it accepts, the venue-A order is *)
(* called with price 1/odds_a and stake bet_amount_a; if that succeeds too, *)
(* mark_bet_placed is called for the row.                                   *)
C28_BothLegsPlaced ==
    (/\ pc = "returned" /\ inv.active /\ inv.approved
     /\ cfg.real_execution
     /\ pm_executor # None /\ cb_executor # None
     /\ Truthy(inv.token_id_a) /\ Truthy(inv.selection_id_b))
    => /\ Has("place_bet")
       /\ Leg("place_bet").args = <<inv.selection_id_b, inv.opp.odds_b, inv.opp.bet_amount_b>>
       /\ CallBinds(cb_executor)
       /\ Returned("place_bet_ret", "ok") =>
             /\ Has("place_order")
             /\ Leg("place_order").args
                  = <<inv.token_id_a, Rat(1, inv.opp.odds_a), "BUY", inv.opp.bet_amount_a>>
       /\ Returned("place_order_ret", "ok") =>
             /\ Has("mark_bet_placed")
             /\ Leg("mark_bet_placed").args[1] = inv.db_id

-----------------------------------------------------------------------------
(* Reading the legs accepted for a row *)

(* C29: no venue-B placement is issued for a row whose venue-B leg was      *)
(* accepted in an earlier invocation, also when that invocation ended in an *)
(* exception and recorded nothing.                                          *)
C29_NoDoubleSpend == pc = "awaitB" => inv.db_id \notin unhedged

-----------------------------------------------------------------------------
(* Reading the fetch of a cycle *)

\* the fetch of a venue yielded no markets in the cycle in progress
FetchedEmpty == fetched.polymarket = "empty" \/ fetched.cloudbet = "empty"

(* C30: in a cycle in which the fetch of either venue yielded no markets,   *)
(* no opportunity is stored, no alert is sent and no leg is placed.         *)
C30_EmptyFetchNoData ==
    FetchedEmpty =>
        /\ Len(rows) = fetched.rows
        /\ alert = NoAlert
        /\ legs = << >>

====
